---- MODULE Spec2Model ----
(***************************************************************************)
(* A model of tpcf-usage-service: the usage collector (collectUsageData    *)
(* and the billability classification), the result cache (CachedData) and  *)
(* the server's refresh loop and metrics handler.                          *)
(*                                                                         *)
(* The specifications share the variables:                                 *)
(*   Spec         the server: refreshDataPeriodically, CachedData, the     *)
(*                metrics handlers, the ticker and the stop signal;        *)
(*   FairSpec     the server under fair scheduling, one metrics request;   *)
(*   ReaderSpec   the server with runs of any duration, one request;       *)
(*   CollectSpec  one call of collectUsageData, one action per loop        *)
(*                iteration, the platform's answers drawn as they are      *)
(*                requested;                                               *)
(*   ClassifySpec isServiceInstanceBillable over drawn catalog tables;     *)
(*   PagesSpec    one call of loadAllPages, one action per page request;   *)
(*   FairPagesSpec  the same call, taking a step whenever it has one;      *)
(*   AuthSpec     one call of authenticateWithCredentials;                 *)
(*   RerunSpec    collectUsageData called repeatedly on unchanged data;    *)
(*   ReportSpec   the report selection of collectUsageData;                *)
(*   CatalogSpec  loadServicePlans and loadServiceOfferings, called        *)
(*                repeatedly;                                              *)
(*   MainSpec     main: the client, the two loads, then the server or one  *)
(*                collection run;                                          *)
(*   HealthSpec   the server with its /health handler;                     *)
(*   StaleSpec    the server while CachedData.IsStale is called.           *)
(***************************************************************************)
EXTENDS Integers, Sequences, FiniteSets, TLC

(***************************************************************************)
(* Bounds of the model.                                                    *)
(***************************************************************************)
\* ticks the ticker delivers in a run of the server
MaxTicks == 2
\* metrics requests served, each by its own handler goroutine
NumHandlers == 2
\* organizations the platform enumerates in one collection run
MaxOrgs == 2
\* largest started_instances / service_instances a usage summary reports
MaxCount == 1
\* page requests one call of loadAllPages issues
MaxPages == 3

Handlers == 1..NumHandlers

Range(s) == {s[i] : i \in 1..Len(s)}

\* the sequences over S of length at most n
RECURSIVE SeqsUpTo(_, _)
SeqsUpTo(S, n) ==
    IF n = 0 THEN {<< >>}
    ELSE LET shorter == SeqsUpTo(S, n - 1)
         IN  shorter \cup {Append(s, x) : s \in {t \in shorter : Len(t) = n - 1}, x \in S}

NoRepeat(s) == \A i, j \in 1..Len(s) : i # j => s[i] # s[j]

(***************************************************************************)
(* The platform's data, as the client sees it.                             *)
(***************************************************************************)
\* Organization {name, guid}
OrgSystem == [Name |-> "system", GUID |-> "g-system"]
OrgA      == [Name |-> "org-a",  GUID |-> "g-org-a"]
OrgB      == [Name |-> "org-b",  GUID |-> "g-org-b"]
OrgUniverse == {OrgSystem, OrgA, OrgB}

\* the organization lists getOrganizations may return
OrgLists == {s \in SeqsUpTo(OrgUniverse, MaxOrgs) : NoRepeat(s)}

\* config.SkipOrgs after parseFlags: the split and trimmed names
SkipLists == {<< >>, <<"system">>, <<"system", "org-b">>}

\* a failed call (network error, non-200 status, unparseable body)
Failed == [ok |-> FALSE]

\* getUsageSummary: a failure, or the two counts of the usage summary
SummaryResponses ==
    {Failed} \cup
    {[ok |-> TRUE, StartedInstances |-> a, ServiceInstances |-> s] :
        a \in 0..MaxCount, s \in 0..MaxCount}

\* a fixed catalog for collection runs: one billable offering, one that is
\* not, and a plan whose offering is missing; "plan-gone" is in no table
CatalogPlans ==
    [p \in {"plan-mysql", "plan-other", "plan-orphan"} |->
        [GUID |-> p,
         Offering |-> CASE p = "plan-mysql"  -> "off-mysql"
                        [] p = "plan-other"  -> "off-other"
                        [] p = "plan-orphan" -> "off-gone"]]
CatalogOfferings ==
    [o \in {"off-mysql", "off-other"} |->
        [GUID |-> o,
         Name |-> IF o = "off-mysql" THEN "p-mysql" ELSE "mysql"]]

SI(plan) == [Plan |-> plan]

\* getServiceInstances: a failure, or the listed instances (their number is
\* independent of the usage summary's service_instances)
InstanceLists ==
    {<< >>,
     <<SI("plan-other"), SI("plan-mysql")>>,
     <<SI("plan-mysql"), SI("plan-gone"), SI("plan-mysql")>>}
InstanceResponses == {Failed} \cup {[ok |-> TRUE, list |-> l] : l \in InstanceLists}

\* the clock's calendar month and year during a run, and another year
CurrentMonth == 11
CurrentYear == 2026
OtherYear == CurrentYear - 1

\* getAppUsageReport: not deployed (404), another failure, or a report
ReportMatching ==
    [ok |-> TRUE,
     MonthlyReports |-> <<[Month |-> CurrentMonth, Year |-> OtherYear, MaximumAppInstances |-> 9],
                          [Month |-> CurrentMonth, Year |-> CurrentYear, MaximumAppInstances |-> 7]>>,
     YearlyReports |-> <<[Year |-> CurrentYear, MaximumAppInstances |-> 8]>>]
ReportStale ==
    [ok |-> TRUE,
     MonthlyReports |-> <<[Month |-> CurrentMonth, Year |-> OtherYear, MaximumAppInstances |-> 9]>>,
     YearlyReports |-> << >>]
ReportResponses ==
    {[ok |-> FALSE, status |-> 404], [ok |-> FALSE, status |-> 500],
     ReportMatching, ReportStale}

(***************************************************************************)
(* The collector's pure parts.                                             *)
(***************************************************************************)
\* UsageResult, as collectUsageData builds it
UsageResult(orgUsages, totalAIs, totalBillableAIs, totalSIs, totalBillableSIs, monthlyMax, yearlyMax) ==
    [Organizations         |-> orgUsages,
     TotalAIs              |-> totalAIs,
     TotalBillableAIs      |-> totalBillableAIs,
     TotalSIs              |-> totalSIs,
     TotalBillableSIs      |-> totalBillableSIs,
     MonthlyMaxBillableAIs |-> monthlyMax,
     YearlyMaxBillableAIs  |-> yearlyMax]

\* shouldSkipOrg: exact comparison against each entry of the skip list
shouldSkipOrg(orgName, skipList) ==
    \E i \in 1..Len(skipList) : orgName = skipList[i]

\* the literal map of isServiceInstanceBillable
billableOfferings ==
    {"p.mysql", "p-mysql", "p.rabbitmq", "p-rabbitmq", "p.redis", "p-redis",
     "postgres", "genai", "genai-service"}

\* strings.ToLower on the offering names of the model
ToLower(name) ==
    CASE name = "P-MYSQL"  -> "p-mysql"
      [] name = "Postgres" -> "postgres"
      [] name = "GenAI"    -> "genai"
      [] OTHER             -> name

\* a bug: the offering name is matched without regard to case
isServiceInstanceBillableAnyCase(plans, offerings, instance) ==
    LET planGUID == instance.Plan
    IN  IF planGUID \notin DOMAIN plans
        THEN [billable |-> FALSE, name |-> "unknown-plan"]
        ELSE LET offeringGUID == plans[planGUID].Offering
             IN  IF offeringGUID \notin DOMAIN offerings
                 THEN [billable |-> FALSE, name |-> "unknown-offering"]
                 ELSE [billable |-> ToLower(offerings[offeringGUID].Name) \in billableOfferings,
                       name |-> offerings[offeringGUID].Name]

\* isServiceInstanceBillable: (billable, offering name or reason)
isServiceInstanceBillable(plans, offerings, instance) ==
    LET planGUID == instance.Plan
    IN  IF planGUID \notin DOMAIN plans
        THEN [billable |-> FALSE, name |-> "unknown-plan"]
        ELSE LET offeringGUID == plans[planGUID].Offering
             IN  IF offeringGUID \notin DOMAIN offerings
                 THEN [billable |-> FALSE, name |-> "unknown-offering"]
                 ELSE [billable |-> offerings[offeringGUID].Name \in billableOfferings,
                       name |-> offerings[offeringGUID].Name]

\* the inner loop of collectUsageData: billableSIs++ per billable instance
RECURSIVE CountBillable(_, _, _)
CountBillable(plans, offerings, instances) ==
    IF instances = << >> THEN 0
    ELSE (IF isServiceInstanceBillable(plans, offerings, Head(instances)).billable
          THEN 1 ELSE 0)
         + CountBillable(plans, offerings, Tail(instances))

\* the accumulators of collectUsageData before the loop; calls is the trace
\* of the platform requests issued so far
InitAcc ==
    [totalAIs |-> 0, totalBillableAIs |-> 0, totalSIs |-> 0, totalBillableSIs |-> 0,
     orgUsages |-> << >>, calls |-> <<<<"organizations", "">>>>]

\* a bug: the grand totals are added only once the service instances of the
\* organization were fetched
ProcessOrgLateTotals(acc, org, summary, instances, skipList, plans, offerings) ==
    LET c1 == Append(acc.calls, <<"usage_summary", org.GUID>>)
    IN  IF ~summary.ok THEN [acc EXCEPT !.calls = c1]
        ELSE
        LET ais == summary.StartedInstances
            sis == summary.ServiceInstances
        IN  IF shouldSkipOrg(org.Name, skipList) THEN [acc EXCEPT !.calls = c1]
            ELSE
            LET a2 == [acc EXCEPT !.calls = Append(c1, <<"service_instances", org.GUID>>),
                                  !.totalBillableAIs = @ + ais]
            IN  IF ~instances.ok THEN a2
                ELSE
                LET billableSIs == CountBillable(plans, offerings, instances.list)
                IN  [a2 EXCEPT !.totalAIs = @ + ais,
                               !.totalSIs = @ + sis,
                               !.totalBillableSIs = @ + billableSIs,
                               !.orgUsages = Append(@, [Name |-> org.Name, AIs |-> ais,
                                                        SIs |-> sis,
                                                        BillableSIs |-> billableSIs])]

\* a bug: the skip list is not consulted
ProcessOrgNoSkip(acc, org, summary, instances, skipList, plans, offerings) ==
    LET c1 == Append(acc.calls, <<"usage_summary", org.GUID>>)
    IN  IF ~summary.ok THEN [acc EXCEPT !.calls = c1]
        ELSE
        LET ais == summary.StartedInstances
            sis == summary.ServiceInstances
            a1  == [acc EXCEPT !.calls = Append(c1, <<"service_instances", org.GUID>>),
                               !.totalAIs = @ + ais,
                               !.totalSIs = @ + sis,
                               !.totalBillableAIs = @ + ais]
        IN  IF ~instances.ok THEN a1
            ELSE
            LET billableSIs == CountBillable(plans, offerings, instances.list)
            IN  [a1 EXCEPT !.totalBillableSIs = @ + billableSIs,
                           !.orgUsages = Append(@, [Name |-> org.Name, AIs |-> ais,
                                                    SIs |-> sis,
                                                    BillableSIs |-> billableSIs])]

\* a bug: a skipped organization is left out of the grand totals too
ProcessOrgSkipFirst(acc, org, summary, instances, skipList, plans, offerings) ==
    LET c1 == Append(acc.calls, <<"usage_summary", org.GUID>>)
    IN  IF ~summary.ok \/ shouldSkipOrg(org.Name, skipList)
        THEN [acc EXCEPT !.calls = c1]
        ELSE
        LET ais == summary.StartedInstances
            sis == summary.ServiceInstances
            a1  == [acc EXCEPT !.calls = Append(c1, <<"service_instances", org.GUID>>),
                               !.totalAIs = @ + ais,
                               !.totalSIs = @ + sis,
                               !.totalBillableAIs = @ + ais]
        IN  IF ~instances.ok THEN a1
            ELSE
            LET billableSIs == CountBillable(plans, offerings, instances.list)
            IN  [a1 EXCEPT !.totalBillableSIs = @ + billableSIs,
                           !.orgUsages = Append(@, [Name |-> org.Name, AIs |-> ais,
                                                    SIs |-> sis,
                                                    BillableSIs |-> billableSIs])]

\* a bug: a failed usage summary counts as zeros and the iteration goes on
ProcessOrgSummaryFailGoesOn(acc, org, summary, instances, skipList, plans, offerings) ==
    LET c1 == Append(acc.calls, <<"usage_summary", org.GUID>>)
        ais == IF summary.ok THEN summary.StartedInstances ELSE 0
        sis == IF summary.ok THEN summary.ServiceInstances ELSE 0
        a1  == [acc EXCEPT !.calls = c1,
                           !.totalAIs = @ + ais,
                           !.totalSIs = @ + sis]
    IN  IF shouldSkipOrg(org.Name, skipList) THEN a1
        ELSE
        LET a2 == [a1 EXCEPT !.calls = Append(@, <<"service_instances", org.GUID>>),
                             !.totalBillableAIs = @ + ais]
        IN  IF ~instances.ok THEN a2
            ELSE
            LET billableSIs == CountBillable(plans, offerings, instances.list)
            IN  [a2 EXCEPT !.totalBillableSIs = @ + billableSIs,
                           !.orgUsages = Append(@, [Name |-> org.Name, AIs |-> ais,
                                                    SIs |-> sis,
                                                    BillableSIs |-> billableSIs])]

\* a bug: the entry of an organization is put in front of the earlier ones
ProcessOrgPrepends(acc, org, summary, instances, skipList, plans, offerings) ==
    LET c1 == Append(acc.calls, <<"usage_summary", org.GUID>>)
    IN  IF ~summary.ok THEN [acc EXCEPT !.calls = c1]
        ELSE
        LET ais == summary.StartedInstances
            sis == summary.ServiceInstances
            a1  == [acc EXCEPT !.calls = c1,
                               !.totalAIs = @ + ais,
                               !.totalSIs = @ + sis]
        IN  IF shouldSkipOrg(org.Name, skipList) THEN a1
            ELSE
            LET a2 == [a1 EXCEPT !.calls = Append(@, <<"service_instances", org.GUID>>),
                                 !.totalBillableAIs = @ + ais]
            IN  IF ~instances.ok THEN a2
                ELSE
                LET billableSIs == CountBillable(plans, offerings, instances.list)
                IN  [a2 EXCEPT !.totalBillableSIs = @ + billableSIs,
                               !.orgUsages = <<[Name |-> org.Name, AIs |-> ais,
                                                SIs |-> sis,
                                                BillableSIs |-> billableSIs]>> \o @]

\* one iteration of the loop over the organizations. summary is the answer
\* to getUsageSummary; instances is the answer to getServiceInstances, read
\* only when that request is issued.
ProcessOrg(acc, org, summary, instances, skipList, plans, offerings) ==
    LET c1 == Append(acc.calls, <<"usage_summary", org.GUID>>)
    IN  IF ~summary.ok THEN [acc EXCEPT !.calls = c1]
        ELSE
        LET ais == summary.StartedInstances
            sis == summary.ServiceInstances
            a1  == [acc EXCEPT !.calls = c1,
                               !.totalAIs = @ + ais,
                               !.totalSIs = @ + sis]
        IN  IF shouldSkipOrg(org.Name, skipList) THEN a1
            ELSE
            LET a2 == [a1 EXCEPT !.calls = Append(@, <<"service_instances", org.GUID>>),
                                 !.totalBillableAIs = @ + ais]
            IN  IF ~instances.ok THEN a2
                ELSE
                LET billableSIs == CountBillable(plans, offerings, instances.list)
                IN  [a2 EXCEPT !.totalBillableSIs = @ + billableSIs,
                               !.orgUsages = Append(@, [Name |-> org.Name, AIs |-> ais,
                                                        SIs |-> sis,
                                                        BillableSIs |-> billableSIs])]

\* whether the iteration for org issued the service-instance request
IssuedInstancesCall(before, after, org) ==
    /\ Len(after.calls) > Len(before.calls)
    /\ after.calls[Len(after.calls)] = <<"service_instances", org.GUID>>

\* a bug: the year of a monthly entry is not compared
RECURSIVE MonthlyMaxAnyYear(_, _, _)
MonthlyMaxAnyYear(reports, month, year) ==
    IF reports = << >> THEN 0
    ELSE IF Head(reports).Month = month
         THEN Head(reports).MaximumAppInstances
         ELSE MonthlyMaxAnyYear(Tail(reports), month, year)

\* the first monthly entry of the current month and year, else zero
RECURSIVE MonthlyMax(_, _, _)
MonthlyMax(reports, month, year) ==
    IF reports = << >> THEN 0
    ELSE IF Head(reports).Month = month /\ Head(reports).Year = year
         THEN Head(reports).MaximumAppInstances
         ELSE MonthlyMax(Tail(reports), month, year)

\* the first yearly entry of the current year, else zero
RECURSIVE YearlyMax(_, _)
YearlyMax(reports, year) ==
    IF reports = << >> THEN 0
    ELSE IF Head(reports).Year = year
         THEN Head(reports).MaximumAppInstances
         ELSE YearlyMax(Tail(reports), year)

\* a bug: without the report the result is returned empty
BuildResultEmptyWithoutReport(acc, report, month, year) ==
    IF ~report.ok
    THEN UsageResult(<< >>, 0, 0, 0, 0, 0, 0)
    ELSE UsageResult(acc.orgUsages, acc.totalAIs, acc.totalBillableAIs,
                     acc.totalSIs, acc.totalBillableSIs,
                     MonthlyMax(report.MonthlyReports, month, year),
                     YearlyMax(report.YearlyReports, year))

\* the tail of collectUsageData: the historical report and the result
BuildResult(acc, report, month, year) ==
    IF ~report.ok
    THEN UsageResult(acc.orgUsages, acc.totalAIs, acc.totalBillableAIs,
                     acc.totalSIs, acc.totalBillableSIs, 0, 0)
    ELSE UsageResult(acc.orgUsages, acc.totalAIs, acc.totalBillableAIs,
                     acc.totalSIs, acc.totalBillableSIs,
                     MonthlyMax(report.MonthlyReports, month, year),
                     YearlyMax(report.YearlyReports, year))

\* an upstream data set: what the platform answers to each request of a run
Upstream(orgsOk, orgs, summary, instances, report) ==
    [orgsOk |-> orgsOk, orgs |-> orgs, summary |-> summary,
     instances |-> instances, report |-> report]

RECURSIVE CollectLoop(_, _, _, _, _, _)
CollectLoop(acc, orgs, up, skipList, plans, offerings) ==
    IF orgs = << >> THEN acc
    ELSE CollectLoop(ProcessOrg(acc, Head(orgs), up.summary[Head(orgs).GUID],
                                up.instances[Head(orgs).GUID], skipList, plans, offerings),
                     Tail(orgs), up, skipList, plans, offerings)

\* collectUsageData against an upstream data set: (result, err)
collectUsageData(up, skipList, plans, offerings, month, year) ==
    IF ~up.orgsOk
    THEN [err |-> TRUE, calls |-> 1]
    ELSE LET acc == CollectLoop(InitAcc, up.orgs, up, skipList, plans, offerings)
         IN  [err |-> FALSE,
              calls |-> Len(acc.calls) + 1,
              result |-> BuildResult(acc, up.report, month, year)]

(***************************************************************************)
(* formatPrometheusMetrics: the metric lines, <<name, org label, value>>.  *)
(***************************************************************************)
TotalLines(r) ==
    << <<"cf_total_application_instances", "", r.TotalAIs>>,
       <<"cf_total_billable_application_instances", "", r.TotalBillableAIs>>,
       <<"cf_total_service_instances", "", r.TotalSIs>>,
       <<"cf_total_billable_service_instances", "", r.TotalBillableSIs>>,
       <<"cf_monthly_max_billable_application_instances", "", r.MonthlyMaxBillableAIs>>,
       <<"cf_yearly_max_billable_application_instances", "", r.YearlyMaxBillableAIs>> >>

OrgLines(orgs) ==
    [i \in 1..Len(orgs) |-> <<"cf_org_application_instances", orgs[i].Name, orgs[i].AIs>>]
    \o [i \in 1..Len(orgs) |-> <<"cf_org_service_instances", orgs[i].Name, orgs[i].SIs>>]
    \o [i \in 1..Len(orgs) |->
           <<"cf_org_billable_service_instances", orgs[i].Name, orgs[i].BillableSIs>>]

formatPrometheusMetrics(r) == TotalLines(r) \o OrgLines(r.Organizations)

(***************************************************************************)
(* State.                                                                  *)
(***************************************************************************)
VARIABLES
    \* CFClient: the plan and offering tables
    servicePlans, serviceOfferings,
    \* CachedData: Result (0 is nil, else an address of heap) and LastFetch
    cdResult, cdLastFetch,
    \* the UsageResult values allocated so far, by address
    heap,
    \* history: the results returned by successful runs, in order; the
    \* (address, value) pairs handed to Set, in order; how the latest
    \* finished run ended ("none", "ok", "failed")
    completed, stored, runOutcome,
    \* refreshDataPeriodically: its position, and its local result
    loopPc, loopResult,
    \* ticker.C (a channel of capacity one), stopChan closed, the clock
    \* (in refresh intervals since start, from 1)
    tickPending, stopClosed, now,
    \* collection runs started and platform requests issued in server mode
    runsStarted, apiCalls,
    \* metrics handlers: position, the pointer Get returned, the number of
    \* Sets that had written when Get read, and the response
    hPc, hResult, hSets, hStatus, hBody,
    \* one call of collectUsageData: position, config.SkipOrgs, the
    \* enumerated organizations, the loop index, the accumulators, the
    \* answers the platform gave, and the returned (result, err)
    cPc, cSkip, cOrgs, cIdx, cAcc, cHist, cReport, cRet,
    \* one call of isServiceInstanceBillable: the instance and the answer
    kInstance, kOut,
    \* one call of loadAllPages: position, url, allResources, the paths
    \* requested, the answers of the platform, and the returned
    \* (resources, err)
    pPc, pUrl, pAll, pReqs, pHist, pRet,
    \* one call of authenticateWithCredentials: position, the apiEndpoint
    \* argument, CFClient.apiEndpoint and accessToken, the discovered token
    \* URL, the fallback index, the URLs contacted, the answers of
    \* the platform, and the returned error
    aPc, aArg, apiEndpoint, accessToken, aTokenURL, aIdx, aReqs, aHist, aRet,
    \* repeated calls of collectUsageData: the data set the platform holds,
    \* and what the earlier calls returned
    rUp, rRuns,
    \* main: its position and config.ServerMode; the calls of
    \* loadServicePlans and loadServiceOfferings so far, each with the
    \* platform's answer and whether it returned an error
    mPc, mServerMode, lHist,
    \* the /health handler: the latest response, with the state of the
    \* server it was given in
    healthSeen,
    \* one call of CachedData.IsStale: position, refreshInterval, the
    \* pointer it read, and what it returned with the cache and the clock it
    \* returned in
    sPc, sInterval, sResult, sOut

clientVars  == <<servicePlans, serviceOfferings>>
cacheVars   == <<cdResult, cdLastFetch>>
serverVars  == <<cdResult, cdLastFetch, heap, completed, stored, runOutcome,
                 loopPc, loopResult, tickPending, stopClosed, now,
                 runsStarted, apiCalls, hPc, hResult, hSets, hStatus, hBody>>
loopVars    == <<loopPc, loopResult, runOutcome, runsStarted, apiCalls,
                 heap, completed>>
handlerVars == <<hPc, hResult, hSets, hStatus, hBody>>
collectVars == <<cPc, cSkip, cOrgs, cIdx, cAcc, cHist, cReport, cRet>>
classifyVars == <<kInstance, kOut>>
pagesVars == <<pPc, pUrl, pAll, pReqs, pHist, pRet>>
authVars == <<aPc, aArg, apiEndpoint, accessToken, aTokenURL, aIdx, aReqs, aHist, aRet>>
rerunVars == <<rUp, rRuns>>
startupVars == <<mPc, mServerMode, lHist>>
healthVars == <<healthSeen>>
staleVars == <<sPc, sInterval, sResult, sOut>>
vars == <<clientVars, serverVars, collectVars, classifyVars, pagesVars, authVars, rerunVars, startupVars, healthVars, staleVars>>

None == [none |-> TRUE]

\* what the actions of each specification leave alone
ServerFrame == UNCHANGED <<servicePlans, serviceOfferings, cPc, cSkip, cOrgs, cIdx, cAcc, cHist, cReport, cRet, kInstance, kOut, pPc, pUrl, pAll, pReqs, pHist, pRet, aPc, aArg, apiEndpoint, accessToken, aTokenURL, aIdx, aReqs, aHist, aRet, rUp, rRuns, mPc, mServerMode, lHist, healthSeen, sPc, sInterval, sResult, sOut>>
CollectFrame == UNCHANGED <<servicePlans, serviceOfferings, cdResult, cdLastFetch, heap, completed, stored, runOutcome, loopPc, loopResult, tickPending, stopClosed, now, runsStarted, apiCalls, hPc, hResult, hSets, hStatus, hBody, kInstance, kOut, pPc, pUrl, pAll, pReqs, pHist, pRet, aPc, aArg, apiEndpoint, accessToken, aTokenURL, aIdx, aReqs, aHist, aRet, rUp, rRuns, mPc, mServerMode, lHist, healthSeen, sPc, sInterval, sResult, sOut>>
ClassifyFrame == UNCHANGED <<servicePlans, serviceOfferings, cdResult, cdLastFetch, heap, completed, stored, runOutcome, loopPc, loopResult, tickPending, stopClosed, now, runsStarted, apiCalls, hPc, hResult, hSets, hStatus, hBody, cPc, cSkip, cOrgs, cIdx, cAcc, cHist, cReport, cRet, pPc, pUrl, pAll, pReqs, pHist, pRet, aPc, aArg, apiEndpoint, accessToken, aTokenURL, aIdx, aReqs, aHist, aRet, rUp, rRuns, mPc, mServerMode, lHist, healthSeen, sPc, sInterval, sResult, sOut>>
PagesFrame == UNCHANGED <<servicePlans, serviceOfferings, cdResult, cdLastFetch, heap, completed, stored, runOutcome, loopPc, loopResult, tickPending, stopClosed, now, runsStarted, apiCalls, hPc, hResult, hSets, hStatus, hBody, cPc, cSkip, cOrgs, cIdx, cAcc, cHist, cReport, cRet, kInstance, kOut, aPc, aArg, apiEndpoint, accessToken, aTokenURL, aIdx, aReqs, aHist, aRet, rUp, rRuns, mPc, mServerMode, lHist, healthSeen, sPc, sInterval, sResult, sOut>>
AuthFrame == UNCHANGED <<servicePlans, serviceOfferings, cPc, cSkip, cOrgs, cIdx, cAcc, cHist, cReport, cRet, kInstance, kOut, pPc, pUrl, pAll, pReqs, pHist, pRet, cdResult, cdLastFetch, heap, completed, stored, runOutcome, loopPc, loopResult, tickPending, stopClosed, now, runsStarted, apiCalls, hPc, hResult, hSets, hStatus, hBody, rUp, rRuns, mPc, mServerMode, lHist, healthSeen, sPc, sInterval, sResult, sOut>>
RerunFrame == UNCHANGED <<servicePlans, serviceOfferings, kInstance, kOut, pPc, pUrl, pAll, pReqs, pHist, pRet, aPc, aArg, apiEndpoint, accessToken, aTokenURL, aIdx, aReqs, aHist, aRet, cdResult, cdLastFetch, heap, completed, stored, runOutcome, loopPc, loopResult, tickPending, stopClosed, now, runsStarted, apiCalls, hPc, hResult, hSets, hStatus, hBody, mPc, mServerMode, lHist, healthSeen, sPc, sInterval, sResult, sOut>>
StartupFrame == UNCHANGED <<kInstance, kOut, pPc, pUrl, pAll, pReqs, pHist, pRet, aPc, aArg, aTokenURL, aIdx, aReqs, aHist, aRet, rUp, rRuns, healthSeen, sPc, sInterval, sResult, sOut>>
HealthFrame == UNCHANGED <<servicePlans, serviceOfferings, cPc, cSkip, cOrgs, cIdx, cAcc, cHist, cReport, cRet, kInstance, kOut, pPc, pUrl, pAll, pReqs, pHist, pRet, aPc, aArg, apiEndpoint, accessToken, aTokenURL, aIdx, aReqs, aHist, aRet, rUp, rRuns, mPc, mServerMode, lHist, cdResult, cdLastFetch, heap, completed, stored, runOutcome, loopPc, loopResult, tickPending, stopClosed, now, runsStarted, apiCalls, hPc, hResult, hSets, hStatus, hBody, sPc, sInterval, sResult, sOut>>
StaleFrame == UNCHANGED <<servicePlans, serviceOfferings, cPc, cSkip, cOrgs, cIdx, cAcc, cHist, cReport, cRet, kInstance, kOut, pPc, pUrl, pAll, pReqs, pHist, pRet, aPc, aArg, apiEndpoint, accessToken, aTokenURL, aIdx, aReqs, aHist, aRet, rUp, rRuns, mPc, mServerMode, lHist, healthSeen, cdResult, cdLastFetch, heap, completed, stored, runOutcome, loopPc, loopResult, tickPending, stopClosed, now, runsStarted, apiCalls, hPc, hResult, hSets, hStatus, hBody>>

\* the states of the parts a specification does not run
ServerIdle ==
    /\ cdResult = 0 /\ cdLastFetch = 0
    /\ heap = << >> /\ completed = << >> /\ stored = << >> /\ runOutcome = "none"
    /\ loopPc = "off" /\ loopResult = 0
    /\ tickPending = FALSE /\ stopClosed = FALSE /\ now = 1
    /\ runsStarted = 0 /\ apiCalls = 0
    /\ hPc = [h \in Handlers |-> "off"]
    /\ hResult = [h \in Handlers |-> 0]
    /\ hSets = [h \in Handlers |-> 0]
    /\ hStatus = [h \in Handlers |-> 0]
    /\ hBody = [h \in Handlers |-> << >>]

CollectIdle ==
    /\ cPc = "off" /\ cSkip = << >> /\ cOrgs = << >> /\ cIdx = 0
    /\ cAcc = None /\ cHist = << >> /\ cReport = None /\ cRet = None

ClassifyIdle ==
    /\ kInstance = None /\ kOut = None

PagesIdle ==
    /\ pPc = "off" /\ pUrl = << >> /\ pAll = << >>
    /\ pReqs = << >> /\ pHist = << >> /\ pRet = None

AuthIdle ==
    /\ aPc = "off" /\ aArg = << >> /\ apiEndpoint = << >> /\ accessToken = ""
    /\ aTokenURL = << >> /\ aIdx = 0 /\ aReqs = << >> /\ aHist = << >> /\ aRet = None

RerunIdle ==
    /\ rUp = None /\ rRuns = << >>

StartupIdle ==
    /\ mPc = "off" /\ mServerMode = FALSE /\ lHist = << >>

HealthIdle ==
    /\ healthSeen = None

StaleIdle ==
    /\ sPc = "off" /\ sInterval = 0 /\ sResult = 0 /\ sOut = None

(***************************************************************************)
(* The server: runServer, refreshDataPeriodically, CachedData and          *)
(* metricsHandler.                                                         *)
(***************************************************************************)
\* the data sets the platform holds while the server runs: the
\* organization enumeration failing, and two different data sets
UpFail == Upstream(FALSE, << >>, [g \in {} |-> Failed], [g \in {} |-> Failed], Failed)
UpA ==
    Upstream(TRUE, <<OrgA, OrgSystem>>,
             [g \in {"g-org-a", "g-system"} |->
                 IF g = "g-org-a"
                 THEN [ok |-> TRUE, StartedInstances |-> 5, ServiceInstances |-> 2]
                 ELSE [ok |-> TRUE, StartedInstances |-> 3, ServiceInstances |-> 1]],
             [g \in {"g-org-a", "g-system"} |->
                 IF g = "g-org-a"
                 THEN [ok |-> TRUE, list |-> <<SI("plan-mysql"), SI("plan-orphan")>>]
                 ELSE [ok |-> TRUE, list |-> <<SI("plan-other")>>]],
             [ok |-> FALSE, status |-> 404])
UpB ==
    Upstream(TRUE, <<OrgB>>,
             [g \in {"g-org-b"} |->
                 [ok |-> TRUE, StartedInstances |-> 1, ServiceInstances |-> 1]],
             [g \in {"g-org-b"} |-> [ok |-> TRUE, list |-> <<SI("plan-mysql")>>]],
             ReportMatching)
ServerUpstreams == {UpFail, UpA, UpB}

\* the -skip-orgs default
ServerSkipOrgs == <<"system">>

\* a bug: the refresh loop takes the write lock before it collects
muWriterAroundRun == loopPc \in {"collecting", "set_lock", "set_result", "set_stamp"}

\* sync.RWMutex of CachedData: the writer is the refresh loop inside Set,
\* the readers are the handlers inside Get and the caller of IsStale (0)
muWriter == loopPc \in {"set_result", "set_stamp"}
muReaders ==
    {h \in Handlers : hPc[h] = "rlocked"}
        \cup (IF sPc \in {"rlocked", "read"} THEN {0} ELSE {})
CanLock == muReaders = {}
CanRLock == ~muWriter

\* a bug: the result of the previous run is reused for the next one
AllocAddrReuse == IF cdResult # 0 THEN cdResult ELSE Len(heap) + 1

\* &UsageResult{...}: every run allocates a fresh result
AllocAddr == Len(heap) + 1

HeapStore(h, addr, val) ==
    IF addr > Len(h) THEN Append(h, val) ELSE [h EXCEPT ![addr] = val]

ServerInit ==
    /\ cdResult = 0 /\ cdLastFetch = 0
    /\ heap = << >> /\ completed = << >> /\ stored = << >> /\ runOutcome = "none"
    /\ loopPc = "start" /\ loopResult = 0
    /\ tickPending = FALSE /\ stopClosed = FALSE /\ now = 1
    /\ runsStarted = 0 /\ apiCalls = 0
    /\ hPc = [h \in Handlers |-> "idle"]
    /\ hResult = [h \in Handlers |-> 0]
    /\ hSets = [h \in Handlers |-> 0]
    /\ hStatus = [h \in Handlers |-> 0]
    /\ hBody = [h \in Handlers |-> << >>]

\* refreshDataPeriodically: the initial fetch begins
InitialFetch ==
    /\ loopPc = "start"
    /\ loopPc' = "collecting"
    /\ runsStarted' = runsStarted + 1
    /\ UNCHANGED <<cacheVars, heap, completed, stored, runOutcome, loopResult,
                   tickPending, stopClosed, now, apiCalls, handlerVars>>
    /\ ServerFrame

\* a bug: the outcome of a failed run is stored too
CollectFailsStoresNil ==
    /\ loopPc = "collecting"
    /\ \E up \in ServerUpstreams :
          LET r == collectUsageData(up, ServerSkipOrgs, servicePlans, serviceOfferings,
                                    CurrentMonth, CurrentYear)
          IN  /\ r.err
              /\ apiCalls' = apiCalls + r.calls
    /\ runOutcome' = "failed"
    /\ loopResult' = 0
    /\ loopPc' = "set_lock"
    /\ UNCHANGED <<cacheVars, heap, completed, stored, tickPending, stopClosed, now,
                   runsStarted, handlerVars>>
    /\ ServerFrame

\* a bug: a failed run ends the loop
CollectFailsReturns ==
    /\ loopPc = "collecting"
    /\ \E up \in ServerUpstreams :
          LET r == collectUsageData(up, ServerSkipOrgs, servicePlans, serviceOfferings,
                                    CurrentMonth, CurrentYear)
          IN  /\ r.err
              /\ apiCalls' = apiCalls + r.calls
    /\ runOutcome' = "failed"
    /\ loopPc' = "returned"
    /\ UNCHANGED <<cacheVars, heap, completed, stored, loopResult, tickPending,
                   stopClosed, now, runsStarted, handlerVars>>
    /\ ServerFrame

\* collectUsageData returns an error: it is logged, nothing else happens
CollectFails ==
    /\ loopPc = "collecting"
    /\ \E up \in ServerUpstreams :
          LET r == collectUsageData(up, ServerSkipOrgs, servicePlans, serviceOfferings,
                                    CurrentMonth, CurrentYear)
          IN  /\ r.err
              /\ apiCalls' = apiCalls + r.calls
    /\ runOutcome' = "failed"
    /\ loopPc' = "wait"
    /\ UNCHANGED <<cacheVars, heap, completed, stored, loopResult, tickPending,
                   stopClosed, now, runsStarted, handlerVars>>
    /\ ServerFrame

\* a bug: a run that got no usage report returns neither result nor error
CollectSucceedsNil ==
    /\ loopPc = "collecting"
    /\ \E up \in ServerUpstreams :
          LET r == collectUsageData(up, ServerSkipOrgs, servicePlans, serviceOfferings,
                                    CurrentMonth, CurrentYear)
          IN  /\ ~r.err
              /\ apiCalls' = apiCalls + r.calls
              /\ heap' = HeapStore(heap, AllocAddr, r.result)
              /\ completed' = Append(completed, r.result)
              /\ loopResult' = IF up.report.ok THEN AllocAddr ELSE 0
    /\ runOutcome' = "ok"
    /\ loopPc' = "set_lock"
    /\ UNCHANGED <<cacheVars, stored, tickPending, stopClosed, now, runsStarted,
                   handlerVars>>
    /\ ServerFrame

\* collectUsageData returns a result: cachedData.Set(result) is next
CollectSucceeds ==
    /\ loopPc = "collecting"
    /\ \E up \in ServerUpstreams :
          LET r == collectUsageData(up, ServerSkipOrgs, servicePlans, serviceOfferings,
                                    CurrentMonth, CurrentYear)
          IN  /\ ~r.err
              /\ apiCalls' = apiCalls + r.calls
              /\ heap' = HeapStore(heap, AllocAddr, r.result)
              /\ completed' = Append(completed, r.result)
    /\ loopResult' = AllocAddr
    /\ runOutcome' = "ok"
    /\ loopPc' = "set_lock"
    /\ UNCHANGED <<cacheVars, stored, tickPending, stopClosed, now, runsStarted,
                   handlerVars>>
    /\ ServerFrame

\* CachedData.Set: cd.mu.Lock()
SetLock ==
    /\ loopPc = "set_lock"
    /\ CanLock
    /\ loopPc' = "set_result"
    /\ UNCHANGED <<cacheVars, heap, completed, stored, runOutcome, loopResult,
                   tickPending, stopClosed, now, runsStarted, apiCalls, handlerVars>>
    /\ ServerFrame

\* CachedData.Set: cd.Result = result
SetWriteResult ==
    /\ loopPc = "set_result"
    /\ cdResult' = loopResult
    /\ stored' = Append(stored, [addr |-> loopResult,
                                 val |-> IF loopResult = 0 THEN None ELSE heap[loopResult]])
    /\ loopPc' = "set_stamp"
    /\ UNCHANGED <<cdLastFetch, heap, completed, runOutcome, loopResult,
                   tickPending, stopClosed, now, runsStarted, apiCalls, handlerVars>>
    /\ ServerFrame

\* CachedData.Set: cd.LastFetch = time.Now(), then the deferred Unlock
SetWriteLastFetch ==
    /\ loopPc = "set_stamp"
    /\ cdLastFetch' = now
    /\ loopPc' = "wait"
    /\ UNCHANGED <<cdResult, heap, completed, stored, runOutcome, loopResult,
                   tickPending, stopClosed, now, runsStarted, apiCalls, handlerVars>>
    /\ ServerFrame

\* a bug: the select has a default case that refreshes without a tick
SelectTickOrDefault ==
    /\ loopPc = "wait"
    /\ tickPending' = FALSE
    /\ loopPc' = "collecting"
    /\ runsStarted' = runsStarted + 1
    /\ UNCHANGED <<cacheVars, heap, completed, stored, runOutcome, loopResult,
                   stopClosed, now, apiCalls, handlerVars>>
    /\ ServerFrame

\* a bug: a tick starts the next run while the previous one has not returned
SelectTickDuringRun ==
    /\ loopPc \in {"wait", "collecting"}
    /\ tickPending
    /\ tickPending' = FALSE
    /\ loopPc' = "collecting"
    /\ runsStarted' = runsStarted + 1
    /\ UNCHANGED <<cacheVars, heap, completed, stored, runOutcome, loopResult,
                   stopClosed, now, apiCalls, handlerVars>>
    /\ ServerFrame

\* a bug: ticks queue up, and taking one leaves the others pending
SelectTickLeavesBacklog ==
    /\ loopPc = "wait"
    /\ tickPending
    /\ tickPending' = (now - 1 > runsStarted)
    /\ loopPc' = "collecting"
    /\ runsStarted' = runsStarted + 1
    /\ UNCHANGED <<cacheVars, heap, completed, stored, runOutcome, loopResult,
                   stopClosed, now, apiCalls, handlerVars>>
    /\ ServerFrame

\* select: case <-ticker.C, the next run begins
SelectTick ==
    /\ loopPc = "wait"
    /\ tickPending
    /\ tickPending' = FALSE
    /\ loopPc' = "collecting"
    /\ runsStarted' = runsStarted + 1
    /\ UNCHANGED <<cacheVars, heap, completed, stored, runOutcome, loopResult,
                   stopClosed, now, apiCalls, handlerVars>>
    /\ ServerFrame

\* a bug: the stop signal is looked at only when a tick has arrived
SelectStopAfterTick ==
    /\ loopPc = "wait"
    /\ tickPending
    /\ stopClosed
    /\ loopPc' = "returned"
    /\ UNCHANGED <<cacheVars, heap, completed, stored, runOutcome, loopResult,
                   tickPending, stopClosed, now, runsStarted, apiCalls, handlerVars>>
    /\ ServerFrame

\* select: case <-stopChan, the loop returns (and the ticker is stopped)
SelectStop ==
    /\ loopPc = "wait"
    /\ stopClosed
    /\ loopPc' = "returned"
    /\ UNCHANGED <<cacheVars, heap, completed, stored, runOutcome, loopResult,
                   tickPending, stopClosed, now, runsStarted, apiCalls, handlerVars>>
    /\ ServerFrame

\* a refresh interval passes: the ticker sends a tick, which is dropped
\* when one is already pending
Tick ==
    /\ loopPc # "returned"
    /\ now <= MaxTicks
    /\ now' = now + 1
    /\ tickPending' = TRUE
    /\ UNCHANGED <<cacheVars, heap, completed, stored, runOutcome, loopPc, loopResult,
                   stopClosed, runsStarted, apiCalls, handlerVars>>
    /\ ServerFrame

\* runServer's shutdown goroutine: close(stopChan)
Stop ==
    /\ ~stopClosed
    /\ stopClosed' = TRUE
    /\ UNCHANGED <<cacheVars, heap, completed, stored, runOutcome, loopPc, loopResult,
                   tickPending, now, runsStarted, apiCalls, handlerVars>>
    /\ ServerFrame

\* a metrics request arrives (the requests are numbered in their order of
\* arrival); CachedData.Get: cd.mu.RLock()
GetRLock(h) ==
    /\ hPc[h] = "idle"
    /\ \A g \in Handlers : g < h => hPc[g] # "idle"
    /\ CanRLock
    /\ hPc' = [hPc EXCEPT ![h] = "rlocked"]
    /\ UNCHANGED <<cacheVars, loopVars, stored, tickPending, stopClosed, now,
                   hResult, hSets, hStatus, hBody>>
    /\ ServerFrame

\* CachedData.Get: return cd.Result, then the deferred RUnlock
GetReturn(h) ==
    /\ hPc[h] = "rlocked"
    /\ hResult' = [hResult EXCEPT ![h] = cdResult]
    /\ hSets' = [hSets EXCEPT ![h] = Len(stored)]
    /\ hPc' = [hPc EXCEPT ![h] = "got"]
    /\ UNCHANGED <<cacheVars, loopVars, stored, tickPending, stopClosed, now,
                   hStatus, hBody>>
    /\ ServerFrame

\* a bug: a result older than the refresh interval is refused as well
metricsStatusStale(result) ==
    IF result = 0 \/ now > cdLastFetch THEN 503 ELSE 200

\* metricsHandler: the status it answers for the pointer Get returned
metricsStatus(result) ==
    IF result = 0 THEN 503 ELSE 200

\* a bug: an empty cache makes the handler collect and store by itself
RespondUnavailableRefreshing(h) ==
    /\ hPc[h] = "got"
    /\ metricsStatus(hResult[h]) = 503
    /\ hStatus' = [hStatus EXCEPT ![h] = 503]
    /\ hPc' = [hPc EXCEPT ![h] = "done"]
    /\ runsStarted' = runsStarted + 1
    /\ \E up \in ServerUpstreams :
          LET r == collectUsageData(up, ServerSkipOrgs, servicePlans, serviceOfferings,
                                    CurrentMonth, CurrentYear)
          IN  /\ apiCalls' = apiCalls + r.calls
              /\ IF r.err
                 THEN UNCHANGED <<cacheVars, heap, completed, stored>>
                 ELSE /\ heap' = HeapStore(heap, AllocAddr, r.result)
                      /\ completed' = Append(completed, r.result)
                      /\ stored' = Append(stored, [addr |-> AllocAddr, val |-> r.result])
                      /\ cdResult' = AllocAddr
                      /\ cdLastFetch' = now
    /\ UNCHANGED <<loopPc, loopResult, runOutcome, tickPending, stopClosed, now,
                   hResult, hSets, hBody>>
    /\ ServerFrame

\* metricsHandler: result == nil, http.Error(..., 503)
RespondUnavailable(h) ==
    /\ hPc[h] = "got"
    /\ metricsStatus(hResult[h]) = 503
    /\ hStatus' = [hStatus EXCEPT ![h] = 503]
    /\ hPc' = [hPc EXCEPT ![h] = "done"]
    /\ UNCHANGED <<cacheVars, loopVars, stored, tickPending, stopClosed, now,
                   hResult, hSets, hBody>>
    /\ ServerFrame

\* formatPrometheusMetrics: the six totals are read and written out
FormatTotals(h) ==
    /\ hPc[h] = "got"
    /\ metricsStatus(hResult[h]) = 200
    /\ hBody' = [hBody EXCEPT ![h] = TotalLines(heap[hResult[h]])]
    /\ hPc' = [hPc EXCEPT ![h] = "fmt"]
    /\ UNCHANGED <<cacheVars, loopVars, stored, tickPending, stopClosed, now,
                   hResult, hSets, hStatus>>
    /\ ServerFrame

\* formatPrometheusMetrics: the organizations are read and written out;
\* metricsHandler: WriteHeader(200) and the body
RespondOK(h) ==
    /\ hPc[h] = "fmt"
    /\ hBody' = [hBody EXCEPT ![h] = @ \o OrgLines(heap[hResult[h]].Organizations)]
    /\ hStatus' = [hStatus EXCEPT ![h] = 200]
    /\ hPc' = [hPc EXCEPT ![h] = "done"]
    /\ UNCHANGED <<cacheVars, loopVars, stored, tickPending, stopClosed, now,
                   hResult, hSets>>
    /\ ServerFrame

ServerNext ==
    \/ InitialFetch
    \/ CollectFails
    \/ CollectSucceeds
    \/ SetLock
    \/ SetWriteResult
    \/ SetWriteLastFetch
    \/ SelectTick
    \/ SelectStop
    \/ Tick
    \/ Stop
    \/ \E h \in Handlers : GetRLock(h)
    \/ \E h \in Handlers : GetReturn(h)
    \/ \E h \in Handlers : RespondUnavailable(h)
    \/ \E h \in Handlers : FormatTotals(h)
    \/ \E h \in Handlers : RespondOK(h)

Init ==
    /\ servicePlans = CatalogPlans
    /\ serviceOfferings = CatalogOfferings
    /\ ServerInit
    /\ CollectIdle
    /\ ClassifyIdle
    /\ PagesIdle
    /\ AuthIdle
    /\ RerunIdle
    /\ StartupIdle
    /\ HealthIdle
    /\ StaleIdle

Next == ServerNext

Spec == Init /\ [][Next]_vars

\* the server under fair scheduling: a goroutine that can take its next
\* step takes it, a collection run ends, and a select whose stop case is
\* ready again and again takes it; the ticker and the stop signal are the
\* environment's and are not forced
LoopFairness ==
    /\ WF_vars(InitialFetch)
    /\ WF_vars(CollectFails \/ CollectSucceeds)
    /\ WF_vars(SetLock)
    /\ WF_vars(SetWriteResult)
    /\ WF_vars(SetWriteLastFetch)
    /\ WF_vars(SelectTick)
    /\ SF_vars(SelectStop)
HandlerFairness ==
    \A h \in Handlers : WF_vars(GetReturn(h))

\* the server while a single metrics request arrives; the reader holding
\* the lock is what can keep the loop's Set waiting
FairInit ==
    /\ servicePlans = CatalogPlans
    /\ serviceOfferings = CatalogOfferings
    /\ cdResult = 0 /\ cdLastFetch = 0
    /\ heap = << >> /\ completed = << >> /\ stored = << >> /\ runOutcome = "none"
    /\ loopPc = "start" /\ loopResult = 0
    /\ tickPending = FALSE /\ stopClosed = FALSE /\ now = 1
    /\ runsStarted = 0 /\ apiCalls = 0
    /\ hPc = [h \in Handlers |-> IF h = 1 THEN "idle" ELSE "off"]
    /\ hResult = [h \in Handlers |-> 0]
    /\ hSets = [h \in Handlers |-> 0]
    /\ hStatus = [h \in Handlers |-> 0]
    /\ hBody = [h \in Handlers |-> << >>]
    /\ CollectIdle
    /\ ClassifyIdle
    /\ PagesIdle
    /\ AuthIdle
    /\ RerunIdle
    /\ StartupIdle
    /\ HealthIdle
    /\ StaleIdle

FairSpec == FairInit /\ [][Next]_vars /\ LoopFairness /\ HandlerFairness

\* the server while a collection run may take any time, even for ever: the
\* handler goroutine takes its next step when it has one, and the loop,
\* once inside Set, runs on to the deferred Unlock; nothing forces a run to
\* end, the loop to start one, the ticker or the stop signal
ReaderFairness ==
    /\ \A h \in Handlers : WF_vars(GetRLock(h))
    /\ \A h \in Handlers : WF_vars(GetReturn(h))
    /\ \A h \in Handlers : WF_vars(RespondUnavailable(h))
    /\ \A h \in Handlers : WF_vars(FormatTotals(h))
    /\ \A h \in Handlers : WF_vars(RespondOK(h))
SetFairness ==
    /\ WF_vars(SetWriteResult)
    /\ WF_vars(SetWriteLastFetch)

ReaderSpec == FairInit /\ [][Next]_vars /\ ReaderFairness /\ SetFairness

(***************************************************************************)
(* One call of collectUsageData, an action per loop iteration. The         *)
(* platform's answers are drawn when the requests are issued and kept in   *)
(* cHist and cReport.                                                      *)
(***************************************************************************)
NotFetched == [fetched |-> FALSE]

CollectInit ==
    /\ cPc = "start"
    /\ cSkip \in SkipLists
    /\ cOrgs = << >> /\ cIdx = 0
    /\ cAcc = None /\ cHist = << >> /\ cReport = None /\ cRet = None

\* getOrganizations fails: return nil, err
EnumerationFails ==
    /\ cPc = "start"
    /\ cRet' = [err |-> TRUE]
    /\ cPc' = "done"
    /\ UNCHANGED <<cSkip, cOrgs, cIdx, cAcc, cHist, cReport>>
    /\ CollectFrame

\* getOrganizations returns the organizations; the accumulators are zeroed
EnumerationSucceeds ==
    /\ cPc = "start"
    /\ \E orgs \in OrgLists : cOrgs' = orgs
    /\ cAcc' = InitAcc
    /\ cIdx' = 1
    /\ cPc' = "loop"
    /\ UNCHANGED <<cSkip, cHist, cReport, cRet>>
    /\ CollectFrame

\* for _, org := range orgs: one iteration
LoopIteration ==
    /\ cPc = "loop"
    /\ cIdx <= Len(cOrgs)
    /\ \E summary \in SummaryResponses, instances \in InstanceResponses :
          LET org == cOrgs[cIdx]
              after == ProcessOrg(cAcc, org, summary, instances, cSkip,
                                  servicePlans, serviceOfferings)
          IN  /\ cAcc' = after
              /\ cHist' = Append(cHist,
                                 [org |-> org,
                                  summary |-> summary,
                                  instances |-> IF IssuedInstancesCall(cAcc, after, org)
                                                THEN instances ELSE NotFetched])
    /\ cIdx' = cIdx + 1
    /\ UNCHANGED <<cPc, cSkip, cOrgs, cReport, cRet>>
    /\ CollectFrame

\* a bug: a report failure other than 404 fails the run
ReportAndReturnFatal ==
    /\ cPc = "loop"
    /\ cIdx > Len(cOrgs)
    /\ \E report \in ReportResponses :
          /\ cReport' = report
          /\ cRet' = IF ~report.ok /\ report.status # 404
                     THEN [err |-> TRUE]
                     ELSE [err |-> FALSE,
                           result |-> BuildResult(cAcc, report, CurrentMonth, CurrentYear)]
    /\ cPc' = "done"
    /\ UNCHANGED <<cSkip, cOrgs, cIdx, cAcc, cHist>>
    /\ CollectFrame

\* after the loop: getAppUsageReport, the maxima, return &UsageResult{...}
ReportAndReturn ==
    /\ cPc = "loop"
    /\ cIdx > Len(cOrgs)
    /\ \E report \in ReportResponses :
          /\ cReport' = report
          /\ cRet' = [err |-> FALSE,
                      result |-> BuildResult(cAcc, report, CurrentMonth, CurrentYear)]
    /\ cPc' = "done"
    /\ UNCHANGED <<cSkip, cOrgs, cIdx, cAcc, cHist>>
    /\ CollectFrame

CollectNext ==
    \/ EnumerationFails
    \/ EnumerationSucceeds
    \/ LoopIteration
    \/ ReportAndReturn

CollectSpecInit ==
    /\ servicePlans = CatalogPlans
    /\ serviceOfferings = CatalogOfferings
    /\ ServerIdle
    /\ CollectInit
    /\ ClassifyIdle
    /\ PagesIdle
    /\ AuthIdle
    /\ RerunIdle
    /\ StartupIdle
    /\ HealthIdle
    /\ StaleIdle

CollectSpec == CollectSpecInit /\ [][CollectNext]_vars

(***************************************************************************)
(* The tail of collectUsageData over drawn historical reports.             *)
(***************************************************************************)
\* entries of a report's monthly and yearly list
MaxEntries == 2

MonthlyEntries ==
    {[Month |-> m, Year |-> y, MaximumAppInstances |-> x] :
        m \in {CurrentMonth, CurrentMonth - 1}, y \in {CurrentYear, OtherYear}, x \in {3, 4}}
YearlyEntries ==
    {[Year |-> y, MaximumAppInstances |-> x] : y \in {CurrentYear, OtherYear}, x \in {5, 6}}

\* getAppUsageReport: not deployed (404), another failure, or a report
DrawnReports ==
    {[ok |-> FALSE, status |-> 404], [ok |-> FALSE, status |-> 500]} \cup
    {[ok |-> TRUE, MonthlyReports |-> m, YearlyReports |-> y] :
        m \in SeqsUpTo(MonthlyEntries, MaxEntries), y \in SeqsUpTo(YearlyEntries, MaxEntries)}

\* a call that enumerated no organization and has left the loop
ReportInit ==
    /\ cPc = "loop"
    /\ cSkip = ServerSkipOrgs
    /\ cOrgs = << >> /\ cIdx = 1
    /\ cAcc = InitAcc /\ cHist = << >> /\ cReport = None /\ cRet = None

\* after the loop: getAppUsageReport, the maxima, return &UsageResult{...}
ReportDrawnAndReturn ==
    /\ cPc = "loop"
    /\ cIdx > Len(cOrgs)
    /\ \E report \in DrawnReports :
          /\ cReport' = report
          /\ cRet' = [err |-> FALSE,
                      result |-> BuildResult(cAcc, report, CurrentMonth, CurrentYear)]
    /\ cPc' = "done"
    /\ UNCHANGED <<cSkip, cOrgs, cIdx, cAcc, cHist>>
    /\ CollectFrame

ReportNext == ReportDrawnAndReturn

ReportSpecInit ==
    /\ servicePlans = CatalogPlans
    /\ serviceOfferings = CatalogOfferings
    /\ ServerIdle
    /\ ReportInit
    /\ ClassifyIdle
    /\ PagesIdle
    /\ AuthIdle
    /\ RerunIdle
    /\ StartupIdle
    /\ HealthIdle
    /\ StaleIdle

ReportSpec == ReportSpecInit /\ [][ReportNext]_vars

(***************************************************************************)
(* isServiceInstanceBillable over drawn plan and offering tables.          *)
(***************************************************************************)
PlanIds == {"plan-1", "plan-2"}
OfferingIds == {"off-1", "off-2"}
\* the nine billable names, and names that differ from them in case, in a
\* separator or in a suffix
OfferingNames ==
    {"p.mysql", "p-mysql", "p.rabbitmq", "p-rabbitmq", "p.redis", "p-redis",
     "postgres", "genai", "genai-service",
     "mysql", "P-MYSQL", "p_mysql", "Postgres", "GenAI", "genai-services", ""}

PartialMaps(D, R) == UNION {[S -> R] : S \in SUBSET D}

ClassifyInit ==
    /\ \E m \in PartialMaps(PlanIds, OfferingIds) :
          servicePlans = [p \in DOMAIN m |-> [GUID |-> p, Offering |-> m[p]]]
    /\ \E m \in PartialMaps(OfferingIds, OfferingNames) :
          serviceOfferings = [o \in DOMAIN m |-> [GUID |-> o, Name |-> m[o]]]
    /\ kInstance = None
    /\ kOut = None

\* the next service instance of the list
PickInstance ==
    /\ kInstance = None \/ kOut # None
    /\ \E p \in PlanIds : kInstance' = SI(p)
    /\ kOut' = None
    /\ ClassifyFrame

\* client.isServiceInstanceBillable(instance)
Classify ==
    /\ kInstance # None
    /\ kOut = None
    /\ kOut' = isServiceInstanceBillable(servicePlans, serviceOfferings, kInstance)
    /\ UNCHANGED kInstance
    /\ ClassifyFrame

ClassifyNext ==
    \/ PickInstance
    \/ Classify

ClassifySpecInit ==
    /\ ServerIdle
    /\ CollectIdle
    /\ ClassifyInit
    /\ PagesIdle
    /\ AuthIdle
    /\ RerunIdle
    /\ StartupIdle
    /\ HealthIdle
    /\ StaleIdle

ClassifySpec == ClassifySpecInit /\ [][ClassifyNext]_vars

(***************************************************************************)
(* One call of loadAllPages. A URL is the sequence of its characters. The  *)
(* platform's answer to a page request is drawn when the request is        *)
(* issued and kept in pHist.                                               *)
(***************************************************************************)
\* strings.Contains
Contains(str, sub) ==
    \E i \in 1..(Len(str) - Len(sub) + 1) : SubSeq(str, i, i + Len(sub) - 1) = sub

\* strings.Split on a one-character separator
RECURSIVE Split(_, _)
Split(str, sep) ==
    IF \A i \in 1..Len(str) : str[i] # sep THEN <<str>>
    ELSE LET i == CHOOSE k \in 1..Len(str) :
                      str[k] = sep /\ \A j \in 1..(k - 1) : str[j] # sep
         IN  <<SubSeq(str, 1, i - 1)>> \o Split(SubSeq(str, i + 1, Len(str)), sep)

\* strings.Join
RECURSIVE Join(_, _)
Join(parts, sep) ==
    IF parts = << >> THEN << >>
    ELSE IF Len(parts) = 1 THEN parts[1]
    ELSE parts[1] \o <<sep>> \o Join(Tail(parts), sep)

SchemeSeparator == <<":", "/", "/">>

\* a bug: the first three parts are dropped without the leading slash
\* being put back
NextURLNoSlash(href) ==
    IF Contains(href, SchemeSeparator)
    THEN LET parts == Split(href, "/")
         IN  IF Len(parts) >= 4
             THEN Join(SubSeq(parts, 4, Len(parts)), "/")
             ELSE href
    ELSE href

\* loadAllPages: the url of the next request, from pagination.next.href
NextURL(href) ==
    IF Contains(href, SchemeSeparator)
    THEN LET parts == Split(href, "/")
         IN  IF Len(parts) >= 4
             THEN <<"/">> \o Join(SubSeq(parts, 4, Len(parts)), "/")
             ELSE href
    ELSE href

\* the url a caller passes: /a
StartURL == <<"/", "a">>
\* the hrefs a page may carry: none, /a?2, s://h/a?2, s://h/a?u=s://h/b,
\* s://h?2, /a?u=s://h/b, and the text null
HrefNone == << >>
HrefRelative == <<"/", "a", "?", "2">>
HrefAbsolute == <<"s", ":", "/", "/", "h", "/", "a", "?", "2">>
HrefAbsoluteQuery == <<"s", ":", "/", "/", "h", "/", "a", "?", "u", "=", "s", ":", "/", "/", "h", "/", "b">>
HrefHostOnly == <<"s", ":", "/", "/", "h", "?", "2">>
HrefRelativeQuery == <<"/", "a", "?", "u", "=", "s", ":", "/", "/", "h", "/", "b">>
HrefNull == <<"n", "u", "l", "l">>
Hrefs == {HrefNone, HrefRelative, HrefAbsolute, HrefAbsoluteQuery, HrefHostOnly,
          HrefRelativeQuery, HrefNull}

\* the resources arrays of a page
ResourceLists == {<< >>, <<"r1">>, <<"r2", "r1">>}

\* CFResponse: pagination.next.href and resources
CFResponse(href, resources) == [ok |-> TRUE, Href |-> href, Resources |-> resources]
PageResponses == {CFResponse(h, r) : h \in Hrefs, r \in ResourceLists}
\* a page request that failed: apiCall returned an error (network error or
\* a status other than 200), or the body is not a CFResponse
ApiCallError == [ok |-> FALSE, error |-> "api_call"]
ParseError == [ok |-> FALSE, error |-> "parse"]

\* the url argument: a path, the empty string, or the string null
StartURLs == {StartURL, << >>, HrefNull}

PagesInit ==
    /\ pPc = "loop"
    /\ pUrl \in StartURLs
    /\ pAll = << >>
    /\ pReqs = << >> /\ pHist = << >> /\ pRet = None

\* a bug: the loop goes on when the url is the string null
LoopConditionIgnoresNull == pUrl # << >>

\* for url != "" && url != "null"
LoopCondition == pUrl # << >> /\ pUrl # HrefNull

\* a bug: the resources gathered so far are returned along with the error
ApiCallFailsPartial ==
    /\ pPc = "loop" /\ LoopCondition
    /\ Len(pReqs) < MaxPages
    /\ pReqs' = Append(pReqs, pUrl)
    /\ pHist' = Append(pHist, ApiCallError)
    /\ pRet' = [err |-> TRUE, error |-> "api_call", resources |-> pAll]
    /\ pPc' = "done"
    /\ UNCHANGED <<pUrl, pAll>>
    /\ PagesFrame

\* c.apiCall(url) returns an error: return nil, err
ApiCallFails ==
    /\ pPc = "loop" /\ LoopCondition
    /\ Len(pReqs) < MaxPages
    /\ pReqs' = Append(pReqs, pUrl)
    /\ pHist' = Append(pHist, ApiCallError)
    /\ pRet' = [err |-> TRUE, error |-> "api_call"]
    /\ pPc' = "done"
    /\ UNCHANGED <<pUrl, pAll>>
    /\ PagesFrame

\* json.Unmarshal(data, &resp) fails: return nil, "failed to parse response"
EnvelopeUnparseable ==
    /\ pPc = "loop" /\ LoopCondition
    /\ Len(pReqs) < MaxPages
    /\ pReqs' = Append(pReqs, pUrl)
    /\ pHist' = Append(pHist, ParseError)
    /\ pRet' = [err |-> TRUE, error |-> "parse"]
    /\ pPc' = "done"
    /\ UNCHANGED <<pUrl, pAll>>
    /\ PagesFrame

\* a bug: the resources of a page replace those gathered so far
PageLoadedOverwrites ==
    /\ pPc = "loop" /\ LoopCondition
    /\ Len(pReqs) < MaxPages
    /\ pReqs' = Append(pReqs, pUrl)
    /\ \E resp \in PageResponses :
          /\ pHist' = Append(pHist, resp)
          /\ pAll' = resp.Resources
          /\ IF resp.Href = << >>
             THEN /\ pRet' = [err |-> FALSE, resources |-> resp.Resources]
                  /\ pPc' = "done"
                  /\ UNCHANGED pUrl
             ELSE /\ pUrl' = NextURL(resp.Href)
                  /\ UNCHANGED <<pPc, pRet>>
    /\ PagesFrame

\* a page is loaded: its resources are appended; an empty href breaks out
\* of the loop, another one becomes the next url
PageLoaded ==
    /\ pPc = "loop" /\ LoopCondition
    /\ Len(pReqs) < MaxPages
    /\ pReqs' = Append(pReqs, pUrl)
    /\ \E resp \in PageResponses :
          /\ pHist' = Append(pHist, resp)
          /\ pAll' = pAll \o resp.Resources
          /\ IF resp.Href = << >>
             THEN /\ pRet' = [err |-> FALSE, resources |-> pAll \o resp.Resources]
                  /\ pPc' = "done"
                  /\ UNCHANGED pUrl
             ELSE /\ pUrl' = NextURL(resp.Href)
                  /\ UNCHANGED <<pPc, pRet>>
    /\ PagesFrame

\* the loop condition fails: return allResources, nil
LoopExit ==
    /\ pPc = "loop" /\ ~LoopCondition
    /\ pRet' = [err |-> FALSE, resources |-> pAll]
    /\ pPc' = "done"
    /\ UNCHANGED <<pUrl, pAll, pReqs, pHist>>
    /\ PagesFrame

PagesNext ==
    \/ ApiCallFails
    \/ EnvelopeUnparseable
    \/ PageLoaded
    \/ LoopExit

PagesSpecInit ==
    /\ servicePlans = CatalogPlans
    /\ serviceOfferings = CatalogOfferings
    /\ ServerIdle
    /\ CollectIdle
    /\ ClassifyIdle
    /\ PagesInit
    /\ AuthIdle
    /\ RerunIdle
    /\ StartupIdle
    /\ HealthIdle
    /\ StaleIdle

PagesSpec == PagesSpecInit /\ [][PagesNext]_vars

\* the call runs on: whenever loadAllPages has a next step, it takes one
FairPagesSpec == PagesSpecInit /\ [][PagesNext]_vars /\ WF_vars(PagesNext)

(***************************************************************************)
(* One call of authenticateWithCredentials. URLs are character sequences;  *)
(* the platform's answers are drawn when the requests are issued.          *)
(***************************************************************************)
\* strings.TrimSuffix
TrimSuffix(str, suffix) ==
    IF Len(str) >= Len(suffix) /\ SubSeq(str, Len(str) - Len(suffix) + 1, Len(str)) = suffix
    THEN SubSeq(str, 1, Len(str) - Len(suffix))
    ELSE str

\* strings.Replace(str, old, new, 1): the first occurrence only
ReplaceFirst(str, old, new) ==
    IF ~Contains(str, old) THEN str
    ELSE LET i == CHOOSE k \in 1..(Len(str) - Len(old) + 1) :
                      /\ SubSeq(str, k, k + Len(old) - 1) = old
                      /\ \A j \in 1..(k - 1) : SubSeq(str, j, j + Len(old) - 1) # old
         IN  SubSeq(str, 1, i - 1) \o new \o SubSeq(str, i + Len(old), Len(str))

\* the literals of the authentication code
ApiDot == <<"a", "p", "i", ".">>
UaaDot == <<"u", "a", "a", ".">>
OauthTokenPath == <<"/", "o", "a", "u", "t", "h", "/", "t", "o", "k", "e", "n">>
UaaOauthTokenPath == <<"/", "u", "a", "a">> \o OauthTokenPath
InfoPath == <<"/", "v", "2", "/", "i", "n", "f", "o">>
Slash == <<"/">>

\* CF_API_ENDPOINT: h://api.x, h://api.x/, h://cf.x and h://api.api.x
EndpointApi == <<"h", ":", "/", "/", "a", "p", "i", ".", "x">>
EndpointApiSlash == EndpointApi \o Slash
EndpointPlain == <<"h", ":", "/", "/", "c", "f", ".", "x">>
EndpointApiTwice == <<"h", ":", "/", "/", "a", "p", "i", ".", "a", "p", "i", ".", "x">>
ApiEndpoints == {EndpointApi, EndpointApiSlash, EndpointPlain, EndpointApiTwice}

\* GET /v2/info: a failure (transport error, status other than 200, body
\* that does not decode), or the authorization_endpoint of the body
InfoFailure == [ok |-> FALSE]
LoginURL == <<"h", ":", "/", "/", "l", ".", "x">>
InfoResponses ==
    {InfoFailure} \cup
    {[ok |-> TRUE, AuthorizationEndpoint |-> e] : e \in {<< >>, LoginURL, LoginURL \o Slash}}

\* POST to a token URL: a failure (transport error, status other than 200,
\* body that does not decode), or the access_token of the body
TokenFailures == {[ok |-> FALSE, kind |-> k] : k \in {"transport", "status", "decode"}}
TokenResponses ==
    TokenFailures \cup {[ok |-> TRUE, AccessToken |-> t] : t \in {"", "token-1", "token-2"}}

\* an error value: its message and the URLs its text names
Error(message, urls) == [err |-> TRUE, message |-> message, urls |-> urls]

\* authenticateDirectly: the error it returns (the transport error of
\* http.Client.Do names the URL, the two others do not), or the token
authenticateDirectly(tokenURL, answer) ==
    IF answer.ok THEN [err |-> FALSE, accessToken |-> answer.AccessToken]
    ELSE CASE answer.kind = "transport" -> Error("Post", <<tokenURL>>)
           [] answer.kind = "status" -> Error("authentication failed with status", << >>)
           [] answer.kind = "decode" -> Error("decode", << >>)

\* discoverAuthEndpoint: (tokenEndpoint, err)
discoverAuthEndpoint(info) ==
    IF ~info.ok \/ info.AuthorizationEndpoint = << >>
    THEN [err |-> TRUE]
    ELSE [err |-> FALSE,
          tokenEndpoint |-> TrimSuffix(info.AuthorizationEndpoint, Slash) \o OauthTokenPath]

\* the fallbackURLs literal of authenticateWithCredentials
fallbackURLs(arg) ==
    << ReplaceFirst(arg, ApiDot, UaaDot) \o OauthTokenPath,
       arg \o UaaOauthTokenPath,
       arg \o OauthTokenPath >>

\* the error of authenticateWithCredentials after the last fallback
AllEndpointsFailed == Error("authentication failed at all endpoints", << >>)

AuthInit ==
    /\ aPc = "start"
    /\ aArg \in ApiEndpoints
    /\ apiEndpoint = << >> /\ accessToken = ""
    /\ aTokenURL = << >> /\ aIdx = 0
    /\ aReqs = << >> /\ aHist = << >> /\ aRet = None

\* c.apiEndpoint is set; discoverAuthEndpoint returns the token endpoint
DiscoverySucceeds ==
    /\ aPc = "start"
    /\ apiEndpoint' = TrimSuffix(aArg, Slash)
    /\ aReqs' = Append(aReqs, TrimSuffix(aArg, Slash) \o InfoPath)
    /\ \E info \in InfoResponses :
          /\ ~discoverAuthEndpoint(info).err
          /\ aHist' = Append(aHist, info)
          /\ aTokenURL' = discoverAuthEndpoint(info).tokenEndpoint
    /\ aPc' = "discovered"
    /\ UNCHANGED <<aArg, accessToken, aIdx, aRet>>
    /\ AuthFrame

\* c.apiEndpoint is set; discoverAuthEndpoint returns an error: the
\* fallbacks are next
DiscoveryFails ==
    /\ aPc = "start"
    /\ apiEndpoint' = TrimSuffix(aArg, Slash)
    /\ aReqs' = Append(aReqs, TrimSuffix(aArg, Slash) \o InfoPath)
    /\ \E info \in InfoResponses :
          /\ discoverAuthEndpoint(info).err
          /\ aHist' = Append(aHist, info)
    /\ aIdx' = 1
    /\ aPc' = "fallback"
    /\ UNCHANGED <<aArg, accessToken, aTokenURL, aRet>>
    /\ AuthFrame

\* return c.authenticateDirectly(tokenURL, ...) on the discovered endpoint
AuthenticateDiscovered ==
    /\ aPc = "discovered"
    /\ aReqs' = Append(aReqs, aTokenURL)
    /\ \E answer \in TokenResponses :
          /\ aHist' = Append(aHist, answer)
          /\ IF ~authenticateDirectly(aTokenURL, answer).err
             THEN /\ accessToken' = authenticateDirectly(aTokenURL, answer).accessToken
                  /\ aRet' = [err |-> FALSE]
             ELSE /\ UNCHANGED accessToken
                  /\ aRet' = authenticateDirectly(aTokenURL, answer)
    /\ aPc' = "done"
    /\ UNCHANGED <<aArg, apiEndpoint, aTokenURL, aIdx>>
    /\ AuthFrame

\* a bug: the loop does not return at the first endpoint that succeeds
FallbackAttemptKeepsTrying ==
    /\ aPc = "fallback"
    /\ aIdx <= Len(fallbackURLs(aArg))
    /\ aReqs' = Append(aReqs, fallbackURLs(aArg)[aIdx])
    /\ \E answer \in TokenResponses :
          /\ aHist' = Append(aHist, answer)
          /\ IF ~authenticateDirectly(fallbackURLs(aArg)[aIdx], answer).err
             THEN /\ accessToken' = authenticateDirectly(fallbackURLs(aArg)[aIdx], answer).accessToken
                  /\ aRet' = [err |-> FALSE]
                  /\ aPc' = IF aIdx = Len(fallbackURLs(aArg)) THEN "done" ELSE aPc
                  /\ aIdx' = aIdx + 1
             ELSE /\ aIdx' = aIdx + 1
                  /\ UNCHANGED <<accessToken, aRet, aPc>>
    /\ UNCHANGED <<aArg, apiEndpoint, aTokenURL>>
    /\ AuthFrame

\* one iteration of the loop over fallbackURLs
FallbackAttempt ==
    /\ aPc = "fallback"
    /\ aIdx <= Len(fallbackURLs(aArg))
    /\ aReqs' = Append(aReqs, fallbackURLs(aArg)[aIdx])
    /\ \E answer \in TokenResponses :
          /\ aHist' = Append(aHist, answer)
          /\ IF ~authenticateDirectly(fallbackURLs(aArg)[aIdx], answer).err
             THEN /\ accessToken' = authenticateDirectly(fallbackURLs(aArg)[aIdx], answer).accessToken
                  /\ aRet' = [err |-> FALSE]
                  /\ aPc' = "done"
                  /\ UNCHANGED aIdx
             ELSE /\ aIdx' = aIdx + 1
                  /\ UNCHANGED <<accessToken, aRet, aPc>>
    /\ UNCHANGED <<aArg, apiEndpoint, aTokenURL>>
    /\ AuthFrame

\* after the loop: return "authentication failed at all endpoints"
FallbacksExhausted ==
    /\ aPc = "fallback"
    /\ aIdx > Len(fallbackURLs(aArg))
    /\ aRet' = AllEndpointsFailed
    /\ aPc' = "done"
    /\ UNCHANGED <<aArg, apiEndpoint, accessToken, aTokenURL, aIdx, aReqs, aHist>>
    /\ AuthFrame

AuthNext ==
    \/ DiscoverySucceeds
    \/ DiscoveryFails
    \/ AuthenticateDiscovered
    \/ FallbackAttempt
    \/ FallbacksExhausted

AuthSpecInit ==
    /\ servicePlans = << >>
    /\ serviceOfferings = << >>
    /\ ServerIdle
    /\ CollectIdle
    /\ ClassifyIdle
    /\ PagesIdle
    /\ AuthInit
    /\ RerunIdle
    /\ StartupIdle
    /\ HealthIdle
    /\ StaleIdle

AuthSpec == AuthSpecInit /\ [][AuthNext]_vars

(***************************************************************************)
(* collectUsageData called again and again while the platform holds one    *)
(* data set: every request is answered from rUp. The locals of the         *)
(* previous call are what the new call finds in memory until it assigns    *)
(* them.                                                                   *)
(***************************************************************************)
\* calls of collectUsageData in a row
MaxRuns == 2

OrgGUIDs == {o.GUID : o \in OrgUniverse}

\* what the platform answers per organization while its data is unchanged
RerunSummaries ==
    {Failed,
     [ok |-> TRUE, StartedInstances |-> MaxCount, ServiceInstances |-> 1],
     [ok |-> TRUE, StartedInstances |-> 1, ServiceInstances |-> 0]}
RerunInstances ==
    {Failed, [ok |-> TRUE, list |-> <<SI("plan-mysql"), SI("plan-gone"), SI("plan-mysql")>>]}
RerunReports == {[ok |-> FALSE, status |-> 404], ReportMatching}

RerunUpstreams ==
    {UpFail} \cup
    {Upstream(TRUE, orgs, s, i, r) :
        orgs \in OrgLists, s \in [OrgGUIDs -> RerunSummaries],
        i \in [OrgGUIDs -> RerunInstances], r \in RerunReports}

RerunInit ==
    /\ CollectInit
    /\ rUp \in RerunUpstreams
    /\ rRuns = << >>

\* getOrganizations fails: return nil, err
RerunEnumerationFails ==
    /\ cPc = "start"
    /\ ~rUp.orgsOk
    /\ cRet' = [err |-> TRUE]
    /\ cPc' = "done"
    /\ UNCHANGED <<cSkip, cOrgs, cIdx, cAcc, cHist, cReport, rUp, rRuns>>
    /\ RerunFrame

\* a bug: the accumulators live on from one call to the next
RerunEnumerationKeepsTotals ==
    /\ cPc = "start"
    /\ rUp.orgsOk
    /\ cOrgs' = rUp.orgs
    /\ cAcc' = IF cAcc = None THEN InitAcc ELSE [cAcc EXCEPT !.calls = InitAcc.calls]
    /\ cIdx' = 1
    /\ cPc' = "loop"
    /\ UNCHANGED <<cSkip, cHist, cReport, cRet, rUp, rRuns>>
    /\ RerunFrame

\* getOrganizations returns the organizations; the accumulators are zeroed
RerunEnumerationSucceeds ==
    /\ cPc = "start"
    /\ rUp.orgsOk
    /\ cOrgs' = rUp.orgs
    /\ cAcc' = InitAcc
    /\ cIdx' = 1
    /\ cPc' = "loop"
    /\ UNCHANGED <<cSkip, cHist, cReport, cRet, rUp, rRuns>>
    /\ RerunFrame

\* for _, org := range orgs: one iteration
RerunLoopIteration ==
    /\ cPc = "loop"
    /\ cIdx <= Len(cOrgs)
    /\ LET org == cOrgs[cIdx]
           summary == rUp.summary[org.GUID]
           instances == rUp.instances[org.GUID]
           after == ProcessOrg(cAcc, org, summary, instances, cSkip,
                               servicePlans, serviceOfferings)
       IN  /\ cAcc' = after
           /\ cHist' = Append(cHist,
                              [org |-> org,
                               summary |-> summary,
                               instances |-> IF IssuedInstancesCall(cAcc, after, org)
                                             THEN instances ELSE NotFetched])
    /\ cIdx' = cIdx + 1
    /\ UNCHANGED <<cPc, cSkip, cOrgs, cReport, cRet, rUp, rRuns>>
    /\ RerunFrame

\* after the loop: getAppUsageReport, the maxima, return &UsageResult{...}
RerunReportAndReturn ==
    /\ cPc = "loop"
    /\ cIdx > Len(cOrgs)
    /\ cReport' = rUp.report
    /\ cRet' = [err |-> FALSE,
                result |-> BuildResult(cAcc, rUp.report, CurrentMonth, CurrentYear)]
    /\ cPc' = "done"
    /\ UNCHANGED <<cSkip, cOrgs, cIdx, cAcc, cHist, rUp, rRuns>>
    /\ RerunFrame

\* the caller keeps what the call returned and calls again
CallAgain ==
    /\ cPc = "done"
    /\ Len(rRuns) + 1 < MaxRuns
    /\ rRuns' = Append(rRuns, cRet)
    /\ cPc' = "start"
    /\ cHist' = << >> /\ cReport' = None /\ cRet' = None
    /\ UNCHANGED <<cSkip, cOrgs, cIdx, cAcc, rUp>>
    /\ RerunFrame

RerunNext ==
    \/ RerunEnumerationFails
    \/ RerunEnumerationSucceeds
    \/ RerunLoopIteration
    \/ RerunReportAndReturn
    \/ CallAgain

RerunSpecInit ==
    /\ servicePlans = CatalogPlans
    /\ serviceOfferings = CatalogOfferings
    /\ ServerIdle
    /\ RerunInit
    /\ ClassifyIdle
    /\ PagesIdle
    /\ AuthIdle
    /\ StartupIdle
    /\ HealthIdle
    /\ StaleIdle

RerunSpec == RerunSpecInit /\ [][RerunNext]_vars

(***************************************************************************)
(* loadServicePlans and loadServiceOfferings: the tables they fill.        *)
(***************************************************************************)
\* a resource that json.Unmarshal rejects
Unparseable == [unparseable |-> TRUE]

\* the resources of the catalog, and a plan and an offering that changed
CatalogPlanResources ==
    <<CatalogPlans["plan-mysql"], CatalogPlans["plan-other"], CatalogPlans["plan-orphan"]>>
CatalogOfferingResources ==
    <<CatalogOfferings["off-mysql"], CatalogOfferings["off-other"]>>
PlanMoved == [GUID |-> "plan-mysql", Offering |-> "off-other"]
OfferingRenamed == [GUID |-> "off-mysql", Name |-> "mysql-old"]

\* loadAllPages for /v3/service_plans and /v3/service_offerings: a failure,
\* or the resources of all pages
PlanAnswers ==
    {Failed} \cup
    {[ok |-> TRUE, resources |-> r] :
        r \in {<< >>,
               <<CatalogPlans["plan-mysql"]>>,
               <<CatalogPlans["plan-mysql"], CatalogPlans["plan-other"]>>,
               <<CatalogPlans["plan-other"], Unparseable>>,
               <<PlanMoved, CatalogPlans["plan-orphan"]>>,
               CatalogPlanResources}}
OfferingAnswers ==
    {Failed} \cup
    {[ok |-> TRUE, resources |-> r] :
        r \in {<< >>,
               <<CatalogOfferings["off-mysql"]>>,
               <<CatalogOfferings["off-other"], Unparseable>>,
               <<OfferingRenamed>>,
               CatalogOfferingResources}}

\* table[guid] = entry on a Go map
Put(table, guid, entry) ==
    [g \in DOMAIN table \cup {guid} |-> IF g = guid THEN entry ELSE table[g]]

\* the loop over the resources: each parsed entry is written into the table
\* the client holds; the first resource that does not parse returns an error
RECURSIVE LoadResources(_, _)
LoadResources(table, resources) ==
    IF resources = << >> THEN [table |-> table, err |-> FALSE]
    ELSE IF Head(resources) = Unparseable THEN [table |-> table, err |-> TRUE]
    ELSE LoadResources(Put(table, Head(resources).GUID, Head(resources)), Tail(resources))

\* loadServicePlans: (c.servicePlans afterwards, err)
loadServicePlans(table, answer) ==
    IF ~answer.ok THEN [table |-> table, err |-> TRUE]
    ELSE LoadResources(table, answer.resources)

\* loadServiceOfferings: (c.serviceOfferings afterwards, err)
loadServiceOfferings(table, answer) ==
    IF ~answer.ok THEN [table |-> table, err |-> TRUE]
    ELSE LoadResources(table, answer.resources)

\* the record of one call
LoadCall(what, answer, err) == [what |-> what, answer |-> answer, err |-> err]

\* calls of the two loads on one client
MaxLoads == 2

CatalogInit ==
    /\ servicePlans = << >>
    /\ serviceOfferings = << >>
    /\ mPc = "off" /\ mServerMode = FALSE /\ lHist = << >>

\* client.loadServicePlans()
CallLoadServicePlans ==
    /\ mPc = "off"
    /\ Len(lHist) < MaxLoads
    /\ \E answer \in PlanAnswers :
          /\ servicePlans' = loadServicePlans(servicePlans, answer).table
          /\ lHist' = Append(lHist, LoadCall("plans", answer,
                                             loadServicePlans(servicePlans, answer).err))
    /\ UNCHANGED <<serviceOfferings, mPc, mServerMode, apiEndpoint, accessToken>>
    /\ UNCHANGED <<serverVars, collectVars>>
    /\ StartupFrame

\* client.loadServiceOfferings()
CallLoadServiceOfferings ==
    /\ mPc = "off"
    /\ Len(lHist) < MaxLoads
    /\ \E answer \in OfferingAnswers :
          /\ serviceOfferings' = loadServiceOfferings(serviceOfferings, answer).table
          /\ lHist' = Append(lHist, LoadCall("offerings", answer,
                                             loadServiceOfferings(serviceOfferings, answer).err))
    /\ UNCHANGED <<servicePlans, mPc, mServerMode, apiEndpoint, accessToken>>
    /\ UNCHANGED <<serverVars, collectVars>>
    /\ StartupFrame

CatalogNext ==
    \/ CallLoadServicePlans
    \/ CallLoadServiceOfferings

CatalogSpecInit ==
    /\ CatalogInit
    /\ ServerIdle
    /\ CollectIdle
    /\ ClassifyIdle
    /\ PagesIdle
    /\ AuthIdle
    /\ RerunIdle
    /\ HealthIdle
    /\ StaleIdle

CatalogSpec == CatalogSpecInit /\ [][CatalogNext]_vars

(***************************************************************************)
(* main: the client, the two loads, then the server or one collection run. *)
(***************************************************************************)
\* what the platform answers to the two loads while main starts
MainPlanAnswers ==
    {Failed,
     [ok |-> TRUE, resources |-> CatalogPlanResources],
     [ok |-> TRUE, resources |-> <<CatalogPlans["plan-other"], Unparseable>>]}
MainOfferingAnswers ==
    {Failed,
     [ok |-> TRUE, resources |-> CatalogOfferingResources],
     [ok |-> TRUE, resources |-> << >>],
     [ok |-> TRUE, resources |-> <<CatalogOfferings["off-other"], Unparseable>>]}

MainInit ==
    /\ servicePlans = << >>
    /\ serviceOfferings = << >>
    /\ mPc = "new_client"
    /\ mServerMode \in BOOLEAN
    /\ lHist = << >>

\* NewCFClient returns an error (a variable of the environment is missing,
\* or authenticateWithCredentials failed): log.Fatalf
NewCFClientFails ==
    /\ mPc = "new_client"
    /\ mPc' = "fatal"
    /\ UNCHANGED <<servicePlans, serviceOfferings, mServerMode, lHist, apiEndpoint, accessToken>>
    /\ UNCHANGED <<serverVars, collectVars>>
    /\ StartupFrame

\* NewCFClient returns the client: empty tables, the endpoint and the token
NewCFClientSucceeds ==
    /\ mPc = "new_client"
    /\ servicePlans' = << >>
    /\ serviceOfferings' = << >>
    /\ apiEndpoint' = TrimSuffix(EndpointApi, Slash)
    /\ accessToken' = "token-1"
    /\ mPc' = "load_plans"
    /\ UNCHANGED <<mServerMode, lHist>>
    /\ UNCHANGED <<serverVars, collectVars>>
    /\ StartupFrame

\* client.loadServicePlans(); log.Fatalf on an error
MainLoadServicePlans ==
    /\ mPc = "load_plans"
    /\ \E answer \in MainPlanAnswers :
          /\ servicePlans' = loadServicePlans(servicePlans, answer).table
          /\ lHist' = Append(lHist, LoadCall("plans", answer,
                                             loadServicePlans(servicePlans, answer).err))
          /\ mPc' = IF loadServicePlans(servicePlans, answer).err
                    THEN "fatal" ELSE "load_offerings"
    /\ UNCHANGED <<serviceOfferings, mServerMode, apiEndpoint, accessToken>>
    /\ UNCHANGED <<serverVars, collectVars>>
    /\ StartupFrame

\* a bug: a failed load of the offerings is logged and main goes on
MainLoadServiceOfferingsGoesOn ==
    /\ mPc = "load_offerings"
    /\ \E answer \in MainOfferingAnswers :
          /\ serviceOfferings' = loadServiceOfferings(serviceOfferings, answer).table
          /\ lHist' = Append(lHist, LoadCall("offerings", answer,
                                             loadServiceOfferings(serviceOfferings, answer).err))
          /\ mPc' = "run"
    /\ UNCHANGED <<servicePlans, mServerMode, apiEndpoint, accessToken>>
    /\ UNCHANGED <<serverVars, collectVars>>
    /\ StartupFrame

\* client.loadServiceOfferings(); log.Fatalf on an error
MainLoadServiceOfferings ==
    /\ mPc = "load_offerings"
    /\ \E answer \in MainOfferingAnswers :
          /\ serviceOfferings' = loadServiceOfferings(serviceOfferings, answer).table
          /\ lHist' = Append(lHist, LoadCall("offerings", answer,
                                             loadServiceOfferings(serviceOfferings, answer).err))
          /\ mPc' = IF loadServiceOfferings(serviceOfferings, answer).err
                    THEN "fatal" ELSE "run"
    /\ UNCHANGED <<servicePlans, mServerMode, apiEndpoint, accessToken>>
    /\ UNCHANGED <<serverVars, collectVars>>
    /\ StartupFrame

\* config.ServerMode: runServer starts the refresh loop and serves requests
MainRunServer ==
    /\ mPc = "run"
    /\ mServerMode
    /\ mPc' = "server"
    /\ loopPc' = "start"
    /\ hPc' = [h \in Handlers |-> IF h = 1 THEN "idle" ELSE "off"]
    /\ UNCHANGED <<cacheVars, heap, completed, stored, runOutcome, loopResult, tickPending,
                   stopClosed, now, runsStarted, apiCalls, hResult, hSets, hStatus, hBody>>
    /\ UNCHANGED <<servicePlans, serviceOfferings, mServerMode, lHist, apiEndpoint, accessToken>>
    /\ UNCHANGED collectVars
    /\ StartupFrame

\* CLI mode: collectUsageData(client, config) is called once
MainCollect ==
    /\ mPc = "run"
    /\ ~mServerMode
    /\ mPc' = "cli"
    /\ cPc' = "start"
    /\ cSkip' = ServerSkipOrgs
    /\ UNCHANGED <<cOrgs, cIdx, cAcc, cHist, cReport, cRet>>
    /\ UNCHANGED <<servicePlans, serviceOfferings, mServerMode, lHist, apiEndpoint, accessToken>>
    /\ UNCHANGED serverVars
    /\ StartupFrame

\* CLI mode: the call returned; log.Fatalf on an error, else the output
MainCollectReturns ==
    /\ mPc = "cli"
    /\ cPc = "done"
    /\ mPc' = IF cRet.err THEN "fatal" ELSE "exited"
    /\ UNCHANGED <<servicePlans, serviceOfferings, mServerMode, lHist, apiEndpoint, accessToken>>
    /\ UNCHANGED <<serverVars, collectVars>>
    /\ StartupFrame

\* the server after runServer was called
MainServes == mPc = "server" /\ ServerNext

\* the collection run of CLI mode
MainCollects == mPc = "cli" /\ CollectNext

MainNext ==
    \/ NewCFClientFails
    \/ NewCFClientSucceeds
    \/ MainLoadServicePlans
    \/ MainLoadServiceOfferings
    \/ MainRunServer
    \/ MainCollect
    \/ MainCollectReturns
    \/ MainServes
    \/ MainCollects

MainSpecInit ==
    /\ MainInit
    /\ ServerIdle
    /\ CollectIdle
    /\ ClassifyIdle
    /\ PagesIdle
    /\ AuthIdle
    /\ RerunIdle
    /\ HealthIdle
    /\ StaleIdle

MainSpec == MainSpecInit /\ [][MainNext]_vars

(***************************************************************************)
(* The server with its /health handler.                                    *)
(***************************************************************************)
\* collection runs that ended with an error so far
FailedRuns == runsStarted - Len(completed) - (IF loopPc = "collecting" THEN 1 ELSE 0)

\* a bug: /health answers 503 while the cache is empty
HealthRequestNeedsCache ==
    /\ loopPc # "off"
    /\ healthSeen' = [status |-> IF cdResult = 0 THEN 503 ELSE 200,
                      body |-> "OK",
                      cacheEmpty |-> cdResult = 0,
                      collecting |-> loopPc = "collecting",
                      failedRuns |-> FailedRuns]
    /\ UNCHANGED serverVars
    /\ HealthFrame

\* GET /health: w.WriteHeader(http.StatusOK), w.Write("OK")
HealthRequest ==
    /\ loopPc # "off"
    /\ healthSeen' = [status |-> 200,
                      body |-> "OK",
                      cacheEmpty |-> cdResult = 0,
                      collecting |-> loopPc = "collecting",
                      failedRuns |-> FailedRuns]
    /\ UNCHANGED serverVars
    /\ HealthFrame

HealthNext ==
    \/ ServerNext
    \/ HealthRequest

HealthSpec == FairInit /\ [][HealthNext]_vars

(***************************************************************************)
(* CachedData.IsStale, called once while the server runs.                  *)
(***************************************************************************)
\* the largest refreshInterval IsStale is called with, in ticker periods
MaxInterval == 1

\* a bug: a result exactly one interval old counts as stale
IsStaleAtInterval(result, lastFetch, clock, refreshInterval) ==
    result = 0 \/ clock - lastFetch >= refreshInterval

\* cd.Result == nil || time.Since(cd.LastFetch) > refreshInterval
IsStale(result, lastFetch, clock, refreshInterval) ==
    result = 0 \/ clock - lastFetch > refreshInterval

\* IsStale: cd.mu.RLock()
IsStaleRLock ==
    /\ sPc = "idle"
    /\ CanRLock
    /\ \E i \in 0..MaxInterval : sInterval' = i
    /\ sPc' = "rlocked"
    /\ UNCHANGED <<sResult, sOut>>
    /\ StaleFrame

\* IsStale: cd.Result is read
IsStaleReadResult ==
    /\ sPc = "rlocked"
    /\ sResult' = cdResult
    /\ sPc' = "read"
    /\ UNCHANGED <<sInterval, sOut>>
    /\ StaleFrame

\* IsStale: cd.LastFetch is read and compared with the clock, then the
\* deferred RUnlock
IsStaleReturn ==
    /\ sPc = "read"
    /\ sOut' = [stale |-> IsStale(sResult, cdLastFetch, now, sInterval),
                result |-> sResult,
                lastFetch |-> cdLastFetch,
                at |-> now,
                sets |-> Len(stored)]
    /\ sPc' = "done"
    /\ UNCHANGED <<sInterval, sResult>>
    /\ StaleFrame

StaleNext ==
    \/ ServerNext
    \/ IsStaleRLock
    \/ IsStaleReadResult
    \/ IsStaleReturn

StaleSpecInit ==
    /\ servicePlans = CatalogPlans
    /\ serviceOfferings = CatalogOfferings
    /\ cdResult = 0 /\ cdLastFetch = 0
    /\ heap = << >> /\ completed = << >> /\ stored = << >> /\ runOutcome = "none"
    /\ loopPc = "start" /\ loopResult = 0
    /\ tickPending = FALSE /\ stopClosed = FALSE /\ now = 1
    /\ runsStarted = 0 /\ apiCalls = 0
    /\ hPc = [h \in Handlers |-> IF h = 1 THEN "idle" ELSE "off"]
    /\ hResult = [h \in Handlers |-> 0]
    /\ hSets = [h \in Handlers |-> 0]
    /\ hStatus = [h \in Handlers |-> 0]
    /\ hBody = [h \in Handlers |-> << >>]
    /\ sPc = "idle" /\ sInterval = 0 /\ sResult = 0 /\ sOut = None
    /\ CollectIdle
    /\ ClassifyIdle
    /\ PagesIdle
    /\ AuthIdle
    /\ RerunIdle
    /\ StartupIdle
    /\ HealthIdle

StaleSpec == StaleSpecInit /\ [][StaleNext]_vars

(***************************************************************************)
(* Properties of the server (under Spec).                                  *)
(***************************************************************************)
\* what a handler has read of the result it holds: the totals once it is
\* past them, the whole rendering once it has answered
ReadSoFarFrom(h, r) ==
    /\ hPc[h] = "fmt" => hBody[h] = TotalLines(r)
    /\ hPc[h] = "done" => hBody[h] = TotalLines(r) \o OrgLines(r.Organizations)

\* C1: every Get returns nil, and then no Set had written yet, or a result
\* all of whose fields, as the handler reads them one after the other, are
\* those of one completed collection run; and a result handed to Set is
\* never modified afterwards.
C1_SnapshotOfOneRun ==
    /\ \A h \in Handlers :
          hPc[h] \in {"got", "fmt", "done"} =>
              /\ hResult[h] = 0 => hSets[h] = 0
              /\ hResult[h] # 0 =>
                    \E k \in 1..Len(completed) :
                        /\ heap[hResult[h]] = completed[k]
                        /\ ReadSoFarFrom(h, completed[k])
    /\ \A k \in 1..Len(stored) :
          /\ stored[k].addr # 0
          /\ heap[stored[k].addr] = stored[k].val

\* C1 witness: a handler is between reading the totals and reading the
\* organizations of a result that Set has meanwhile replaced in the cache
C1_Witness ==
    \E h \in Handlers :
        /\ hPc[h] = "fmt"
        /\ hResult[h] # 0
        /\ cdResult # 0
        /\ cdResult # hResult[h]
        /\ heap[cdResult] # heap[hResult[h]]

\* C2: the cache's Result and LastFetch change only inside the Set that
\* follows a successful run, to that run's result; the step in which a run
\* fails changes neither.
C2_CacheChangesOnlyOnSuccess ==
    [][/\ (cdResult' # cdResult \/ cdLastFetch' # cdLastFetch) =>
              /\ runOutcome = "ok"
              /\ loopPc \in {"set_result", "set_stamp"}
              /\ cdResult' # 0
              /\ heap[cdResult'] = completed[Len(completed)]
       /\ (loopPc = "collecting" /\ runOutcome' = "failed" /\ loopPc' # "collecting") =>
              /\ cdResult' = cdResult /\ cdLastFetch' = cdLastFetch
      ]_vars

\* C2 witness: a run has failed after an earlier one succeeded, the loop
\* is back in its select, and the cache still holds the earlier result
C2_Witness ==
    /\ runOutcome = "failed"
    /\ loopPc = "wait"
    /\ Len(completed) >= 1
    /\ cdResult # 0
    /\ heap[cdResult] = completed[Len(completed)]

\* C3: an answered metrics request got 503 exactly when no Set had written
\* a result when the handler read the cache, and otherwise 200 with the
\* rendering of the result the latest Set had written by then; while no
\* run has completed successfully every answer is 503.
C3_StatusFollowsCache ==
    \A h \in Handlers :
        hPc[h] = "done" =>
            /\ hStatus[h] \in {200, 503}
            /\ hStatus[h] = 503 <=> hSets[h] = 0
            /\ hStatus[h] = 200 =>
                  /\ hSets[h] \in 1..Len(stored)
                  /\ hBody[h] = formatPrometheusMetrics(stored[hSets[h]].val)
            /\ Len(completed) = 0 => hStatus[h] = 503

\* C3 witness: one request was answered 503 and a later one 200
C3_Witness ==
    \E g, h \in Handlers :
        /\ hPc[g] = "done" /\ hStatus[g] = 503
        /\ hPc[h] = "done" /\ hStatus[h] = 200

\* C4: a step of a metrics handler starts no run, issues no platform
\* request and leaves the cache and the results alone; a run is started,
\* and platform requests are issued, only by a step of the refresh loop.
C4_HandlersOnlyRead ==
    [][/\ hPc' # hPc =>
              /\ cdResult' = cdResult /\ cdLastFetch' = cdLastFetch
              /\ runsStarted' = runsStarted /\ apiCalls' = apiCalls
              /\ heap' = heap /\ loopPc' = loopPc
       /\ runsStarted' # runsStarted =>
              /\ loopPc \in {"start", "wait"} /\ loopPc' = "collecting"
              /\ hPc' = hPc
       /\ apiCalls' # apiCalls =>
              /\ loopPc = "collecting" /\ loopPc' # "collecting"
              /\ hPc' = hPc
      ]_vars

\* C4 witness: a request found the cache empty while the loop sat in its
\* select after a failed run, was answered, and the cache is still empty
\* with one run started
C4_Witness ==
    \E h \in Handlers :
        /\ hPc[h] = "done" /\ hStatus[h] = 503
        /\ loopPc = "wait" /\ runOutcome = "failed"
        /\ runsStarted = 1
        /\ cdResult = 0

\* the ticks the ticker has sent since the loop started: one per elapsed
\* refresh interval
TicksDelivered == now - 1

\* a tick is taken from ticker.C
ConsumesTick == tickPending /\ ~tickPending'

C18_State ==
    /\ runsStarted <= 1 + TicksDelivered
    /\ loopPc = "start" <=> runsStarted = 0

C18_Step ==
    /\ runsStarted' # runsStarted =>
          /\ runsStarted' = runsStarted + 1
          /\ loopPc' = "collecting"
          /\ \/ runsStarted = 0 /\ loopPc = "start" /\ tickPending' = tickPending
             \/ runsStarted >= 1 /\ loopPc = "wait" /\ ConsumesTick
    /\ ConsumesTick => (runsStarted >= 1 /\ runsStarted' = runsStarted + 1)

\* C18: the first run is started by the loop's first step, whether or not
\* a tick is pending and without consuming one; every other run is
\* started by the step that takes a tick from the ticker, and a tick is
\* taken only to start a run; the runs started never exceed one plus the
\* ticks delivered.
C18_RunsFollowTicks == [](C18_State) /\ [][C18_Step]_vars

\* C18 witness: every delivered tick has started a run on top of the
\* initial one
C18_Witness ==
    /\ TicksDelivered = MaxTicks
    /\ runsStarted = 1 + TicksDelivered
    /\ loopPc = "wait"

\* the loop sits in its select with no tick to take
Parked == loopPc = "wait" /\ ~tickPending

C19_ParkedStep ==
    (Parked /\ stopClosed /\ loopPc' # loopPc) => (loopPc' = "returned" /\ ~tickPending')

\* C19: once stopChan is closed the loop eventually returns, wherever it
\* was when the signal came and whether or not another tick is ever sent;
\* a loop parked in its select with the signal raised and no tick pending
\* leaves the select only by returning.
C19_StopEndsLoop ==
    /\ stopClosed ~> (loopPc = "returned")
    /\ [][C19_ParkedStep]_vars

\* C19 witness: the loop has returned from its select, with no tick
\* pending, after the signal was raised before the last tick was due
C19_Witness ==
    /\ loopPc = "returned"
    /\ stopClosed
    /\ ~tickPending
    /\ TicksDelivered < MaxTicks
    /\ runsStarted = 1

\* a run has just failed and the loop is back in its select
WaitingAfterFailure == loopPc = "wait" /\ runOutcome = "failed"

C20_State ==
    /\ loopPc = "returned" => stopClosed
    /\ (loopPc = "wait" /\ runOutcome = "ok") =>
          /\ cdResult # 0
          /\ cdResult = loopResult
          /\ heap[cdResult] = completed[Len(completed)]

C20_Step ==
    /\ (loopPc = "collecting" /\ loopPc' # loopPc /\ runOutcome' = "failed") =>
          loopPc' = "wait"
    /\ (WaitingAfterFailure /\ loopPc' # loopPc) =>
          \/ loopPc' = "collecting" /\ ConsumesTick /\ runsStarted' = runsStarted + 1
          \/ loopPc' = "returned" /\ stopClosed

\* C20: the step in which a run fails, the initial one included, takes the
\* loop to its select; the loop returns only once stopChan is closed; from
\* the select after a failure a pending tick leads to a new run (or, with
\* the stop signal raised, to the return), and when a run has succeeded
\* and the loop is back in its select the cache holds that run's result.
C20_FailureKeepsLoopAlive ==
    /\ [](C20_State)
    /\ [][C20_Step]_vars
    /\ (WaitingAfterFailure /\ tickPending) ~> (loopPc = "collecting" \/ loopPc = "returned")

\* C20 witness: the initial run failed, a tick started a second run, it
\* succeeded, and the cache, empty until then, holds its result
C20_Witness ==
    /\ runsStarted = 2
    /\ Len(completed) = 1 /\ Len(stored) = 1
    /\ runOutcome = "ok" /\ loopPc = "wait"
    /\ ~stopClosed
    /\ cdResult # 0
    /\ heap[cdResult] = completed[1]

\* the ticks waiting in ticker.C
PendingTicks == IF tickPending THEN 1 ELSE 0

\* the runs started by a tick
TickRuns == IF runsStarted = 0 THEN 0 ELSE runsStarted - 1

C30_State ==
    /\ PendingTicks <= 1
    /\ TickRuns + PendingTicks <= TicksDelivered

C30_Step ==
    /\ (runsStarted >= 1 /\ runsStarted' = runsStarted + 1) =>
          (tickPending /\ ~tickPending' /\ now' = now)
    /\ (~tickPending /\ tickPending') => now' = now + 1
    /\ (tickPending /\ now' = now + 1) =>
          (tickPending' /\ runsStarted' = runsStarted /\ loopPc' = loopPc)

\* C30: at most one tick is pending at any time, and the runs started by a
\* tick plus the tick pending never exceed the ticks delivered; a tick that
\* fires while one is pending changes nothing; a run after the first one
\* starts by taking the pending tick and leaves none behind, so that the
\* run after it starts only once the ticker has fired again.
C30_TicksNotAccumulated == [](C30_State) /\ [][C30_Step]_vars

\* C30 witness: the first run stored its result only after both ticks had
\* fired; one more run started (and failed), and the loop now waits with no
\* tick pending
C30_Witness ==
    /\ TicksDelivered = 2
    /\ Len(stored) = 1 /\ cdLastFetch = 3
    /\ runsStarted = 2 /\ runOutcome = "failed"
    /\ loopPc = "wait" /\ ~tickPending

\* a collection run starts in this step
RunStarts == runsStarted' = runsStarted + 1

\* the refresh loop is between two runs: the previous run has returned and
\* its Set, if it had one, is over
BetweenRuns == loopPc \in {"start", "wait"}

C34_State ==
    /\ Len(stored) <= Len(completed)
    /\ Len(completed) <= Len(stored) + 1
    /\ Len(completed) <= runsStarted
    /\ loopPc = "collecting" => (Len(completed) < runsStarted /\ Len(stored) = Len(completed))
    /\ Len(stored) < Len(completed) => loopPc \in {"set_lock", "set_result"}
    /\ \A k \in 1..Len(stored) : stored[k].val = completed[k]

C34_Step ==
    /\ runsStarted' # runsStarted => RunStarts
    /\ RunStarts =>
          /\ BetweenRuns
          /\ ~muWriter
          /\ Len(stored) = Len(completed)
          /\ loopPc' = "collecting"
    /\ (loopPc = "collecting" /\ loopPc' # loopPc) => runsStarted' = runsStarted
    /\ stored' # stored =>
          /\ loopPc = "set_result"
          /\ stored' = Append(stored, [addr |-> loopResult, val |-> completed[Len(completed)]])
          /\ runsStarted' = runsStarted

\* C34: a run starts only when the refresh loop is between runs, with the
\* previous run returned, every result returned so far stored and no Set
\* under way; a run in progress ends before the count of runs grows; each
\* Set stores the result of the run that has just returned, while no other
\* run is in progress, so the results are stored one at a time in the
\* order of their runs.
C34_OneRunAtATime == [](C34_State) /\ [][C34_Step]_vars

\* C34 witness: two runs returned different results, stored in their order,
\* and the third run is in progress
C34_Witness ==
    /\ runsStarted = 3 /\ loopPc = "collecting"
    /\ Len(stored) = 2
    /\ stored[1].val = completed[1] /\ stored[2].val = completed[2]
    /\ completed[1] # completed[2]

C35_Step ==
    stopClosed =>
        /\ loopPc = "wait" => ~RunStarts
        /\ <<cdResult, cdLastFetch>>' # <<cdResult, cdLastFetch>> =>
              loopPc \in {"set_result", "set_stamp"}

\* C35, as claimed: once stopChan is closed the select of the refresh loop
\* starts no collection run, and the cache is written only by the Set that
\* completes the run which was in progress when the signal came.
C35_NoRunAfterStop == [][C35_Step]_vars

C36_State ==
    /\ stored # << >> => (~muWriter => cdResult # 0)
    /\ \A h \in Handlers :
          hPc[h] = "done" => hStatus[h] = (IF hSets[h] = 0 THEN 503 ELSE 200)
    /\ \A g, h \in Handlers :
          (hPc[g] = "done" /\ hStatus[g] = 200 /\ hPc[h] = "idle") => cdResult # 0
    /\ \A g, h \in Handlers :
          (hPc[g] = "done" /\ hPc[h] = "done" /\ hSets[g] <= hSets[h] /\ hStatus[g] = 200)
              => hStatus[h] = 200

C36_Step ==
    /\ cdResult # 0 => cdResult' # 0
    /\ \A h \in Handlers :
          (hPc[h] = "rlocked" /\ hPc'[h] = "got" /\ cdResult # 0) => hResult'[h] # 0

\* C36: a cache that holds a result holds one in every later state; a
\* request is answered 200 exactly when a Set had written before its Get;
\* once a request has been answered 200 the cache is populated when any
\* later request arrives, and of two answered requests the one whose Get
\* came no earlier is answered 200 if the other one was.
C36_PopulatedForGood == [](C36_State) /\ [][C36_Step]_vars

\* C36 witness: the first request was answered 200, the latest run has
\* failed after the only successful one, and the second request, reading
\* the same Set's result, was answered 200 too
C36_Witness ==
    /\ hPc[1] = "done" /\ hStatus[1] = 200
    /\ hPc[2] = "done" /\ hStatus[2] = 200
    /\ runsStarted = 3 /\ loopPc = "wait"
    /\ runOutcome = "failed" /\ Len(completed) = 1

\* the step is one of the refresh loop inside Set
InsideSet == muWriter /\ loopPc' # loopPc

C31_State ==
    /\ loopPc \in {"start", "collecting", "wait", "returned"} => CanRLock
    /\ \A h \in Handlers :
          (loopPc = "collecting" /\ hPc[h] = "idle"
              /\ \A g \in Handlers : g < h => hPc[g] # "idle") => ENABLED GetRLock(h)

C31_Step ==
    /\ apiCalls' # apiCalls => (~muWriter /\ ~muWriter' /\ loopPc = "collecting")
    /\ InsideSet =>
          /\ UNCHANGED <<heap, completed, runOutcome, loopResult, runsStarted, apiCalls>>
          /\ \/ loopPc = "set_result" /\ loopPc' = "set_stamp" /\ cdResult' = loopResult
             \/ loopPc = "set_stamp" /\ loopPc' = "wait" /\ cdLastFetch' = now
    /\ \A h \in Handlers :
          (hPc[h] = "rlocked" /\ hPc'[h] # hPc[h]) =>
              (hPc'[h] = "got" /\ hResult'[h] = cdResult /\ hBody'[h] = hBody[h])
    /\ \A h \in Handlers :
          hBody'[h] # hBody[h] => hPc[h] \in {"got", "fmt"}

\* C31: while a collection run is in progress, and whenever the refresh
\* loop is outside Set, the write lock is free and an arriving request can
\* take the read lock; platform requests are issued only with the write
\* lock free; the loop holds the lock for the write of the pointer and of
\* the timestamp and nothing else; a handler holds the read lock for the
\* read of the pointer only and formats after releasing it; and a request
\* that arrives during a run is answered even if that run never ends.
C31_LockNotHeldDuringRun ==
    /\ [](C31_State)
    /\ [][C31_Step]_vars
    /\ (loopPc = "collecting" /\ hPc[1] = "idle") ~> (hPc[1] = "done")

\* C31 witness: the second run is still in progress, and the request that
\* arrived got the first run's result and was answered 200
C31_Witness ==
    /\ loopPc = "collecting" /\ runsStarted = 2
    /\ Len(stored) = 1
    /\ hPc[1] = "done" /\ hStatus[1] = 200 /\ hSets[1] = 1

(***************************************************************************)
(* Properties of CachedData.IsStale (under StaleSpec).                     *)
(***************************************************************************)
\* the caller of IsStale holds the read lock
StaleHoldsLock == sPc \in {"rlocked", "read"}

C32_State ==
    /\ StaleHoldsLock => ~muWriter
    /\ ~muWriter =>
          /\ cdResult = (IF stored = << >> THEN 0 ELSE stored[Len(stored)].addr)
          /\ (stored = << >>) = (cdLastFetch = 0)
          /\ cdLastFetch <= now
    /\ sPc = "done" =>
          /\ sOut.stale = (sOut.sets = 0 \/ sOut.at - sOut.lastFetch > sInterval)
          /\ sOut.result = (IF sOut.sets = 0 THEN 0 ELSE stored[sOut.sets].addr)
          /\ (sOut.sets = 0) = (sOut.lastFetch = 0)

C32_Step ==
    /\ StaleHoldsLock => UNCHANGED <<cdResult, cdLastFetch, stored>>
    /\ (sPc = "read" /\ sPc' = "done") =>
          /\ sOut'.result = cdResult /\ sOut'.lastFetch = cdLastFetch
          /\ sOut'.at = now /\ sOut'.sets = Len(stored)
    /\ cdLastFetch' # cdLastFetch =>
          (cdLastFetch' = now /\ loopPc = "set_stamp" /\ runOutcome = "ok")

\* C32: IsStale answers true exactly when no Set had written when it read,
\* or the clock is more than refreshInterval past the timestamp of the
\* latest Set (a Set follows a successful run only); the pointer and the
\* timestamp it evaluates are those of that one Set, the cache being
\* outside Set and unchanged for as long as IsStale holds the lock.
C32_IsStale == [](C32_State) /\ [][C32_Step]_vars

\* C32 witness: IsStale was called with an interval of one period exactly
\* one period after the latest Set, and answered false
C32_Witness ==
    /\ sPc = "done"
    /\ sInterval = 1
    /\ sOut.sets = 1 /\ sOut.result # 0
    /\ sOut.at - sOut.lastFetch = 1
    /\ ~sOut.stale

(***************************************************************************)
(* Properties of the /health handler (under HealthSpec).                   *)
(***************************************************************************)
\* C27: every health request is answered 200, whatever the cache holds,
\* whether or not a collection run is in progress, and however many runs
\* have failed.
C27_HealthAlwaysOK ==
    healthSeen # None => healthSeen.status = 200

\* C27 witness: a health request was answered 200 while the cache was
\* empty, two runs had failed and the third was in progress
C27_Witness ==
    /\ healthSeen # None
    /\ healthSeen.status = 200
    /\ healthSeen.cacheEmpty
    /\ healthSeen.collecting
    /\ healthSeen.failedRuns = 2

(***************************************************************************)
(* Properties of collectUsageData (under CollectSpec).                     *)
(***************************************************************************)
RECURSIVE SumSeq(_)
SumSeq(s) == IF s = << >> THEN 0 ELSE Head(s) + SumSeq(Tail(s))

Returned == cPc = "done" /\ ~cRet.err

\* the organization was enumerated and its usage summary was fetched
SummaryFetched(i) == cHist[i].summary.ok
\* config.SkipOrgs as a set of names
InSkipSet(name) == name \in Range(cSkip)

Started(i) == IF SummaryFetched(i) THEN cHist[i].summary.StartedInstances ELSE 0
Services(i) == IF SummaryFetched(i) THEN cHist[i].summary.ServiceInstances ELSE 0

\* C5: the returned total_app_instances and total_service_instances are
\* the sums of the usage-summary counts over every enumerated organization
\* whose summary was fetched, skipped or not; total_billable_app_instances
\* is the sum of started_app_instances over those not in the skip set.
C5_TotalsAreSums ==
    Returned =>
        /\ Len(cHist) = Len(cOrgs)
        /\ \A i \in 1..Len(cOrgs) : cHist[i].org = cOrgs[i]
        /\ cRet.result.TotalAIs = SumSeq([i \in 1..Len(cHist) |-> Started(i)])
        /\ cRet.result.TotalSIs = SumSeq([i \in 1..Len(cHist) |-> Services(i)])
        /\ cRet.result.TotalBillableAIs =
              SumSeq([i \in 1..Len(cHist) |->
                         IF InSkipSet(cHist[i].org.Name) THEN 0 ELSE Started(i)])

\* C5 witness: a run returned after a skipped and a non-skipped
\* organization, both with a fetched summary and a count above zero
C5_Witness ==
    /\ Returned
    /\ \E i, j \in 1..Len(cHist) :
          /\ InSkipSet(cHist[i].org.Name) /\ ~InSkipSet(cHist[j].org.Name)
          /\ Started(i) > 0 /\ Started(j) > 0
          /\ Services(i) > 0

\* the loop iteration for organization cOrgs[cIdx] is taken
Iterates == cPc = "loop" /\ cIdx <= Len(cOrgs) /\ cIdx' = cIdx + 1

C6_Result ==
    Returned =>
        \A i \in 1..Len(cHist) :
            InSkipSet(cHist[i].org.Name) =>
                /\ \A n \in 1..Len(cRet.result.Organizations) :
                      cRet.result.Organizations[n].Name # cHist[i].org.Name
                /\ cHist[i].instances = NotFetched
                /\ <<"service_instances", cHist[i].org.GUID>> \notin Range(cAcc.calls)

C6_Step ==
    (Iterates /\ InSkipSet(cOrgs[cIdx].Name)) =>
        /\ cAcc'.totalBillableAIs = cAcc.totalBillableAIs
        /\ cAcc'.totalBillableSIs = cAcc.totalBillableSIs
        /\ cAcc'.orgUsages = cAcc.orgUsages
        /\ cHist'[cIdx].summary.ok =>
              /\ cAcc'.totalAIs = cAcc.totalAIs + cHist'[cIdx].summary.StartedInstances
              /\ cAcc'.totalSIs = cAcc.totalSIs + cHist'[cIdx].summary.ServiceInstances

\* C6: an organization in the skip set has no entry in the returned list
\* and no service-instance request; its iteration leaves both billable
\* totals and the list as they were, and adds its usage-summary counts to
\* total_app_instances and total_service_instances.
C6_SkippedOrgs == [](C6_Result) /\ [][C6_Step]_vars

\* C6 witness: a run returned after a skipped organization whose summary
\* reported instances, and the totals hold them while the list is empty
C6_Witness ==
    /\ Returned
    /\ Len(cHist) = 1
    /\ InSkipSet(cHist[1].org.Name)
    /\ Started(1) > 0 /\ Services(1) > 0
    /\ cRet.result.TotalAIs = Started(1)
    /\ cRet.result.TotalBillableAIs = 0
    /\ cRet.result.Organizations = << >>

\* C8: every returned result has total_app_instances at least
\* total_billable_app_instances (the counts of a usage summary are not
\* negative).
C8_AppTotalCoversBillable ==
    Returned => cRet.result.TotalAIs >= cRet.result.TotalBillableAIs

\* C8 witness: a run returned in which a non-skipped organization's
\* service-instance fetch failed after its summary reported instances
C8_Witness ==
    /\ Returned
    /\ \E i \in 1..Len(cHist) :
          /\ ~InSkipSet(cHist[i].org.Name)
          /\ Started(i) > 0
          /\ cHist[i].instances = Failed
    /\ cRet.result.TotalBillableAIs > 0

\* C9, as claimed: every returned result has total_service_instances at
\* least total_billable_service_instances.
C9_ServiceTotalCoversBillable ==
    Returned => cRet.result.TotalSIs >= cRet.result.TotalBillableSIs

\* C10, as claimed: every OrgUsage entry of a returned result has
\* billable_service_instances at most service_instances.
C10_OrgBillableWithinServices ==
    Returned =>
        \A n \in 1..Len(cRet.result.Organizations) :
            cRet.result.Organizations[n].BillableSIs <= cRet.result.Organizations[n].SIs

\* the four totals and the list, as the loop holds them
Accumulated(acc) ==
    <<acc.totalAIs, acc.totalBillableAIs, acc.totalSIs, acc.totalBillableSIs, acc.orgUsages>>

C11_Result ==
    Returned =>
        \A i \in 1..Len(cHist) :
            ~SummaryFetched(i) =>
                /\ \A n \in 1..Len(cRet.result.Organizations) :
                      cRet.result.Organizations[n].Name # cHist[i].org.Name
                /\ cHist[i].instances = NotFetched
                /\ <<"service_instances", cHist[i].org.GUID>> \notin Range(cAcc.calls)

C11_Step ==
    (Iterates /\ ~cHist'[cIdx].summary.ok) =>
        /\ Accumulated(cAcc') = Accumulated(cAcc)
        /\ cAcc'.calls = Append(cAcc.calls, <<"usage_summary", cOrgs[cIdx].GUID>>)
        /\ cPc' = "loop"

\* C11: the iteration of an organization whose usage-summary fetch fails
\* leaves the four totals and the list as they were, issues no
\* service-instance request and hands over to the next organization; a
\* returned result has no entry for such an organization.
C11_FailedSummary == [](C11_Result) /\ [][C11_Step]_vars

\* C11 witness: a run returned whose first organization's usage summary
\* failed and whose second, not skipped, has its entry and its counts in
\* the result
C11_Witness ==
    /\ Returned
    /\ Len(cHist) = 2
    /\ ~SummaryFetched(1) /\ ~InSkipSet(cHist[1].org.Name)
    /\ SummaryFetched(2) /\ Started(2) > 0
    /\ Len(cRet.result.Organizations) = 1
    /\ cRet.result.Organizations[1].Name = cHist[2].org.Name
    /\ cRet.result.TotalAIs = Started(2)

\* the service-instance request of the organization was issued and failed
InstancesFailed(i) == cHist[i].instances = Failed

\* C12, as claimed: an organization that is not skipped and whose
\* service-instance fetch fails contributes zero to each of the four totals
\* of the returned result and has no entry in its list.
C12_FailedInstancesContributeZero ==
    Returned =>
        /\ cRet.result.TotalAIs =
              SumSeq([i \in 1..Len(cHist) |-> IF InstancesFailed(i) THEN 0 ELSE Started(i)])
        /\ cRet.result.TotalSIs =
              SumSeq([i \in 1..Len(cHist) |-> IF InstancesFailed(i) THEN 0 ELSE Services(i)])
        /\ cRet.result.TotalBillableAIs =
              SumSeq([i \in 1..Len(cHist) |->
                         IF InstancesFailed(i) \/ InSkipSet(cHist[i].org.Name)
                         THEN 0 ELSE Started(i)])
        /\ cRet.result.TotalBillableSIs =
              SumSeq([n \in 1..Len(cRet.result.Organizations) |->
                         cRet.result.Organizations[n].BillableSIs])
        /\ \A i \in 1..Len(cHist) :
              InstancesFailed(i) =>
                  \A n \in 1..Len(cRet.result.Organizations) :
                      cRet.result.Organizations[n].Name # cHist[i].org.Name

\* C37, as claimed: in every returned result total_billable_app_instances
\* is the sum of app_instances over the entries of the organizations list
\* and total_billable_service_instances is the sum of their
\* billable_service_instances, whichever per-organization requests failed.
C37_BillableTotalsMatchList ==
    Returned =>
        /\ cRet.result.TotalBillableAIs =
              SumSeq([n \in 1..Len(cRet.result.Organizations) |->
                         cRet.result.Organizations[n].AIs])
        /\ cRet.result.TotalBillableSIs =
              SumSeq([n \in 1..Len(cRet.result.Organizations) |->
                         cRet.result.Organizations[n].BillableSIs])

\* getOrganizations succeeded: the accumulators of the run exist
Enumerated == cAcc # None

\* C13: a finished call of collectUsageData has returned an error, and
\* then nothing else, exactly when the organization enumeration failed;
\* otherwise it has returned a result, whatever the usage-summary,
\* service-instance and report requests answered.
C13_OnlyEnumerationIsFatal ==
    cPc = "done" =>
        /\ cRet.err <=> ~Enumerated
        /\ cRet.err => DOMAIN cRet = {"err"}
        /\ ~cRet.err =>
              /\ DOMAIN cRet = {"err", "result"}
              /\ cReport # None
              /\ Len(cHist) = Len(cOrgs)
              /\ cRet.result.Organizations = cAcc.orgUsages

\* C13 witness: a run returned a result although a usage summary, a
\* service-instance request and the report request all failed
C13_Witness ==
    /\ Returned
    /\ \E i, j \in 1..Len(cHist) : ~SummaryFetched(i) /\ InstancesFailed(j)
    /\ ~cReport.ok /\ cReport.status # 404

\* the four totals and the list of a result
Counted(r) ==
    <<r.TotalAIs, r.TotalBillableAIs, r.TotalSIs, r.TotalBillableSIs, r.Organizations>>

\* C17: a call whose report request failed, with 404 or otherwise, has
\* returned a result with both maxima zero; the list and the four totals
\* of every returned result are those the loop had accumulated before the
\* report was requested, the same whether the report came or not.
C17_ReportFailureLeavesCounts ==
    (cPc = "done" /\ Enumerated) =>
        /\ ~cRet.err
        /\ Counted(cRet.result) = Accumulated(cAcc)
        /\ ~cReport.ok =>
              /\ cRet.result.MonthlyMaxBillableAIs = 0
              /\ cRet.result.YearlyMaxBillableAIs = 0

\* C17 witness: a run returned after a report request that failed with a
\* status other than 404, and its result holds an organization and counts
C17_Witness ==
    /\ Returned
    /\ cReport = [ok |-> FALSE, status |-> 500]
    /\ Len(cRet.result.Organizations) = 1
    /\ cRet.result.TotalAIs > 0 /\ cRet.result.TotalBillableSIs > 0
    /\ cRet.result.MonthlyMaxBillableAIs = 0

\* the organization of iteration i is in the result's list: it is not
\* skipped and both its usage summary and its service instances were fetched
InstancesFetched(i) == cHist[i].instances \notin {NotFetched, Failed}
Listed(i) == ~InSkipSet(cHist[i].org.Name) /\ SummaryFetched(i) /\ InstancesFetched(i)

\* how many of the fetched instances of iteration i are classified billable
ClassifiedBillable(i) ==
    Cardinality({k \in 1..Len(cHist[i].instances.list) :
                    isServiceInstanceBillable(servicePlans, serviceOfferings,
                                              cHist[i].instances.list[k]).billable})

\* the entries of the listed organizations among the first n iterations
RECURSIVE ListedEntries(_)
ListedEntries(n) ==
    IF n = 0 THEN << >>
    ELSE ListedEntries(n - 1) \o
         (IF Listed(n)
          THEN <<[Name |-> cHist[n].org.Name,
                  AIs |-> cHist[n].summary.StartedInstances,
                  SIs |-> cHist[n].summary.ServiceInstances,
                  BillableSIs |-> ClassifiedBillable(n)]>>
          ELSE << >>)

\* C26: the iterations follow the enumerated organizations one by one; the
\* list gathered so far, and the organizations list of the result returned,
\* is the sequence of the entries of the listed organizations in
\* enumeration order, each with the app and service counts of its usage
\* summary and the number of its fetched instances classified billable.
C26_OrganizationsList ==
    Enumerated =>
        /\ Len(cHist) <= Len(cOrgs)
        /\ \A i \in 1..Len(cHist) : cHist[i].org = cOrgs[i]
        /\ cAcc.orgUsages = ListedEntries(Len(cHist))
        /\ Returned =>
              /\ Len(cHist) = Len(cOrgs)
              /\ cRet.result.Organizations = ListedEntries(Len(cOrgs))

\* C26 witness: org-b then org-a were enumerated and both are listed, in
\* that order, with two and one billable instances; the summary of org-b
\* counts fewer service instances than were fetched
C26_Witness ==
    /\ Returned
    /\ cOrgs = <<OrgB, OrgA>>
    /\ Len(cRet.result.Organizations) = 2
    /\ cRet.result.Organizations[1] =
          [Name |-> "org-b", AIs |-> 1, SIs |-> 0, BillableSIs |-> 2]
    /\ cRet.result.Organizations[2].Name = "org-a"
    /\ cRet.result.Organizations[2].BillableSIs = 1

(***************************************************************************)
(* Properties of the report selection (under ReportSpec).                  *)
(***************************************************************************)
\* the positions of the monthly entries of the current month and year, and
\* of the yearly entries of the current year
MonthlyMatches(report) ==
    {i \in 1..Len(report.MonthlyReports) :
        /\ report.MonthlyReports[i].Month = 11
        /\ report.MonthlyReports[i].Year = 2026}
YearlyMatches(report) ==
    {i \in 1..Len(report.YearlyReports) : report.YearlyReports[i].Year = 2026}

First(S) == CHOOSE i \in S : \A j \in S : i <= j

\* C29: when the report was fetched, the monthly maximum of the result is
\* the maximum of the first monthly entry of the current month and year, or
\* zero when there is none, and the yearly maximum is the maximum of the
\* first yearly entry of the current year, or zero when there is none, each
\* whatever the other is.
C29_MaximaSelection ==
    (cPc = "done" /\ ~cRet.err /\ cReport.ok) =>
        /\ cRet.result.MonthlyMaxBillableAIs =
              IF MonthlyMatches(cReport) = {} THEN 0
              ELSE cReport.MonthlyReports[First(MonthlyMatches(cReport))].MaximumAppInstances
        /\ cRet.result.YearlyMaxBillableAIs =
              IF YearlyMatches(cReport) = {} THEN 0
              ELSE cReport.YearlyReports[First(YearlyMatches(cReport))].MaximumAppInstances

\* C29 witness: the current month of another year comes first and is passed
\* over, the entry of the current month and year gives the monthly maximum,
\* and no yearly entry matches
C29_Witness ==
    /\ cPc = "done" /\ ~cRet.err /\ cReport.ok
    /\ Len(cReport.MonthlyReports) = 2
    /\ cReport.MonthlyReports[1] = [Month |-> 11, Year |-> 2025, MaximumAppInstances |-> 3]
    /\ cReport.MonthlyReports[2] = [Month |-> 11, Year |-> 2026, MaximumAppInstances |-> 4]
    /\ cReport.YearlyReports = <<[Year |-> 2025, MaximumAppInstances |-> 5]>>
    /\ cRet.result.MonthlyMaxBillableAIs = 4
    /\ cRet.result.YearlyMaxBillableAIs = 0

(***************************************************************************)
(* Properties of loadAllPages (under PagesSpec).                           *)
(***************************************************************************)
RECURSIVE Concat(_)
Concat(ss) == IF ss = << >> THEN << >> ELSE Head(ss) \o Concat(Tail(ss))

\* every page request was answered with a page
AllPagesLoaded == \A k \in 1..Len(pHist) : pHist[k].ok

\* C14: when every one of the N >= 1 page requests of a finished call was
\* answered with a page and the last page's next href is empty, the call
\* returns, without error, the resources of the N pages one page after
\* the other, each page's in its own order; no page before the last had an
\* empty next href.
C14_Concatenation ==
    (pPc = "done" /\ Len(pHist) >= 1 /\ AllPagesLoaded /\ pHist[Len(pHist)].Href = << >>) =>
        /\ ~pRet.err
        /\ pRet.resources = Concat([k \in 1..Len(pHist) |-> pHist[k].Resources])
        /\ Len(pRet.resources) = SumSeq([k \in 1..Len(pHist) |-> Len(pHist[k].Resources)])
        /\ \A k \in 1..(Len(pHist) - 1) : pHist[k].Href # << >>

\* C14 witness: a call returned after three pages of different resource
\* arrays, reached through an absolute and a relative href
C14_Witness ==
    /\ pPc = "done" /\ Len(pHist) = 3 /\ AllPagesLoaded
    /\ pHist[1].Href = HrefAbsolute /\ pHist[2].Href = HrefRelative
    /\ pHist[3].Href = << >>
    /\ pHist[1].Resources = <<"r2", "r1">>
    /\ pHist[2].Resources = <<"r1">>
    /\ pHist[3].Resources = <<"r2", "r1">>
    /\ pRet.resources = <<"r2", "r1", "r1", "r2", "r1">>

\* the position of the first scheme separator of a url, 0 when it has none
FirstSeparator(str) ==
    IF Contains(str, SchemeSeparator)
    THEN CHOOSE i \in 1..(Len(str) - 2) :
             /\ SubSeq(str, i, i + 2) = SchemeSeparator
             /\ \A j \in 1..(i - 1) : SubSeq(str, j, j + 2) # SchemeSeparator
    ELSE 0

\* a url without its scheme and host: what follows the host, from the
\* first slash or question mark on; a url that does not begin with a
\* scheme has neither and is left as it is
WithoutSchemeAndHost(str) ==
    LET i == FirstSeparator(str)
    IN  IF i = 0 \/ \E j \in 1..(i - 1) : str[j] \in {"/", "?"} THEN str
        ELSE LET rest == SubSeq(str, i + 3, Len(str))
                 stops == {j \in 1..Len(rest) : rest[j] \in {"/", "?"}}
             IN  IF stops = {} THEN << >>
                 ELSE SubSeq(rest, CHOOSE j \in stops : \A n \in stops : j <= n, Len(rest))

\* C15, as claimed: whenever the next href of a page contains a scheme
\* separator, the path of the following request is that href without its
\* scheme and host, path and query unchanged.
C15_NextPathIsHrefWithoutHost ==
    \A k \in 1..(Len(pReqs) - 1) :
        Contains(pHist[k].Href, SchemeSeparator) =>
            pReqs[k + 1] = WithoutSchemeAndHost(pHist[k].Href)

C16_Result ==
    (pPc = "done" /\ ~AllPagesLoaded) =>
        /\ pRet.err
        /\ "resources" \notin DOMAIN pRet
        /\ ~pHist[Len(pHist)].ok
        /\ pRet.error = pHist[Len(pHist)].error
        /\ \A k \in 1..(Len(pHist) - 1) : pHist[k].ok

C16_Step == pPc = "done" => (pPc' = "done" /\ pReqs' = pReqs /\ pRet' = pRet)

\* C16: a call in which a page request failed (apiCall returned an error,
\* or the envelope did not parse) has returned that error and no
\* resources, the failed request is the first failure and the last
\* request, and a finished call issues no request.
C16_FirstErrorNoResources == [](C16_Result) /\ [][C16_Step]_vars

\* C16 witness: two pages with resources were loaded, the third request
\* failed, and the call returned the error
C16_Witness ==
    /\ pPc = "done" /\ Len(pHist) = 3
    /\ pHist[1].ok /\ pHist[1].Resources # << >>
    /\ pHist[2].ok /\ pHist[2].Resources # << >>
    /\ pHist[3] = ParseError
    /\ pRet.err

\* an answer after which no further page is asked for: an error, or a page
\* whose next href is empty or the string null
EndsChain(answer) ==
    \/ ~answer.ok
    \/ answer.Href = << >>
    \/ answer.Href = <<"n", "u", "l", "l">>

\* the platform's chain of pages is longer than the model follows it
ChainExceedsBound == Len(pHist) = MaxPages /\ ~EndsChain(pHist[MaxPages])

C28_State ==
    /\ Len(pReqs) = Len(pHist)
    /\ pReqs # << >> => pReqs[1] = <<"/", "a">>
    /\ \A k \in 1..(Len(pHist) - 1) : ~EndsChain(pHist[k])
    /\ (pPc = "done" /\ ~pRet.err) => (pHist = << >> \/ EndsChain(pHist[Len(pHist)]))
    /\ (pPc = "done" /\ pRet.err) => (pHist # << >> /\ ~pHist[Len(pHist)].ok)

C28_Step ==
    /\ Len(pReqs') <= Len(pReqs) + 1
    /\ pPc = "done" => UNCHANGED <<pPc, pReqs, pHist, pRet>>

\* C28: every request is answered by one page before the next is issued;
\* the first request is for the starting path, and none is issued when that
\* path is empty (or the string null); no request follows a page whose next
\* href is empty or the string null; the call returns without error only
\* after such a page (or without any request); and every call returns,
\* unless the platform's chain has more pages than the model follows.
C28_OneRequestPerPage ==
    /\ [](C28_State)
    /\ [][C28_Step]_vars
    /\ <>(pPc = "done" \/ ChainExceedsBound)

\* C28 witness: the call returned after two requests, the second page
\* carrying the next href null
C28_Witness ==
    /\ pPc = "done" /\ ~pRet.err
    /\ Len(pReqs) = 2
    /\ pHist[1].Href = <<"/", "a", "?", "2">>
    /\ pHist[2].Href = <<"n", "u", "l", "l">>

(***************************************************************************)
(* Properties of authenticateWithCredentials (under AuthSpec).             *)
(***************************************************************************)
\* the answer to GET /v2/info gave no token endpoint
DiscoveryFailed ==
    /\ Len(aHist) >= 1
    /\ ~aHist[1].ok \/ aHist[1].AuthorizationEndpoint = << >>

\* the token URLs contacted and their answers: everything after /v2/info
TokenReqs == Tail(aReqs)
TokenAnswers == Tail(aHist)

\* the endpoint argument with its first api. turned into uaa.
UaaSubstituted(arg) ==
    CASE arg = EndpointApi -> <<"h", ":", "/", "/", "u", "a", "a", ".", "x">>
      [] arg = EndpointApiSlash -> <<"h", ":", "/", "/", "u", "a", "a", ".", "x", "/">>
      [] arg = EndpointPlain -> EndpointPlain
      [] arg = EndpointApiTwice ->
             <<"h", ":", "/", "/", "u", "a", "a", ".", "a", "p", "i", ".", "x">>

\* the fallback token endpoints in their fixed order
FallbackOrder(arg) ==
    << UaaSubstituted(arg) \o <<"/", "o", "a", "u", "t", "h", "/", "t", "o", "k", "e", "n">>,
       arg \o <<"/", "u", "a", "a", "/", "o", "a", "u", "t", "h", "/", "t", "o", "k", "e", "n">>,
       arg \o <<"/", "o", "a", "u", "t", "h", "/", "t", "o", "k", "e", "n">> >>

\* C21: after a failed discovery the token URLs contacted are the fallbacks
\* from the first on, in their fixed order and one at a time; only the last
\* one contacted can have succeeded, and when it has the call is over, has
\* returned success and the client holds the token of that answer; the
\* call returns success only so, and until then the token is untouched.
C21_FirstFallbackWins ==
    DiscoveryFailed =>
        /\ Len(TokenReqs) <= 3
        /\ Len(TokenReqs) = Len(TokenAnswers)
        /\ \A k \in 1..Len(TokenReqs) : TokenReqs[k] = FallbackOrder(aArg)[k]
        /\ \A k \in 1..(Len(TokenAnswers) - 1) : ~TokenAnswers[k].ok
        /\ (Len(TokenAnswers) >= 1 /\ TokenAnswers[Len(TokenAnswers)].ok) =>
              /\ aPc = "done"
              /\ ~aRet.err
              /\ accessToken = TokenAnswers[Len(TokenAnswers)].AccessToken
        /\ (aPc = "done" /\ ~aRet.err) =>
              (Len(TokenAnswers) >= 1 /\ TokenAnswers[Len(TokenAnswers)].ok)
        /\ (\A k \in 1..Len(TokenAnswers) : ~TokenAnswers[k].ok) => accessToken = ""

\* C21 witness: discovery failed, the uaa. endpoint failed, /uaa/oauth/token
\* answered with a token, and the call returned success holding it
C21_Witness ==
    /\ aPc = "done" /\ DiscoveryFailed
    /\ aArg = EndpointApi
    /\ Len(TokenReqs) = 2
    /\ ~TokenAnswers[1].ok
    /\ TokenAnswers[2] = [ok |-> TRUE, AccessToken |-> "token-1"]
    /\ accessToken = "token-1"
    /\ ~aRet.err

\* C22, as claimed: when discovery and every fallback failed, the returned
\* error names every token endpoint that was tried.
C22_ErrorNamesEndpoints ==
    (aPc = "done" /\ DiscoveryFailed /\ \A k \in 1..Len(TokenAnswers) : ~TokenAnswers[k].ok) =>
        /\ aRet.err
        /\ Len(TokenReqs) = 3
        /\ \A k \in 1..Len(TokenReqs) : TokenReqs[k] \in Range(aRet.urls)

\* the token endpoint discovery gave
DiscoveredEndpoint ==
    TrimSuffix(aHist[1].AuthorizationEndpoint, Slash)
        \o <<"/", "o", "a", "u", "t", "h", "/", "t", "o", "k", "e", "n">>

\* what the call does when discovery succeeded: one token request, to the
\* discovered endpoint, whose outcome is the outcome of the call
C33_AfterDiscovery ==
    (Len(aHist) >= 1 /\ ~DiscoveryFailed) =>
        /\ Len(TokenReqs) <= 1
        /\ \A k \in 1..Len(TokenReqs) : TokenReqs[k] = DiscoveredEndpoint
        /\ aPc = "done" <=> Len(TokenReqs) = 1
        /\ aPc = "done" =>
              /\ aRet.err = ~TokenAnswers[1].ok
              /\ ~aRet.err => accessToken = TokenAnswers[1].AccessToken

\* C33, as claimed: token endpoints other than the discovered one are
\* contacted only when discovery failed; when it succeeded there is one
\* token request, to the discovered endpoint, and its outcome is the
\* outcome of the call; in every case no token URL is requested twice in
\* one call and at most three fallback requests are made.
C33_FallbacksOnlyAfterFailedDiscovery ==
    /\ C33_AfterDiscovery
    /\ aReqs # << >> => (Len(TokenReqs) <= 3 /\ NoRepeat(TokenReqs))

\* C38, as claimed: when authenticateWithCredentials has returned success
\* the client holds a token that is not empty and is the one the last token
\* endpoint contacted answered with; and as long as every token request
\* has failed the client's token is the one it had before the call.
C38_NonEmptyTokenOnSuccess ==
    /\ (aPc = "done" /\ ~aRet.err) =>
          /\ Len(aHist) >= 2
          /\ aHist[Len(aHist)].ok
          /\ accessToken = aHist[Len(aHist)].AccessToken
          /\ accessToken # ""
    /\ (\A k \in 2..Len(aHist) : ~aHist[k].ok) => accessToken = ""

(***************************************************************************)
(* Properties of repeated collection runs (under RerunSpec).               *)
(***************************************************************************)
\* C23: while the platform's data, the catalog, the skip list and the
\* calendar month and year stay the same, every call of collectUsageData
\* returns what the first call returned: both fail, or both return results
\* with the same organization list in the same order, the same four totals
\* and the same two maxima.
C23_RunsAgree ==
    /\ \A k \in 1..Len(rRuns) : rRuns[k] = rRuns[1]
    /\ (cPc = "done" /\ rRuns # << >>) =>
          /\ cRet.err = rRuns[1].err
          /\ ~cRet.err =>
                /\ cRet.result.Organizations = rRuns[1].result.Organizations
                /\ cRet.result.TotalAIs = rRuns[1].result.TotalAIs
                /\ cRet.result.TotalBillableAIs = rRuns[1].result.TotalBillableAIs
                /\ cRet.result.TotalSIs = rRuns[1].result.TotalSIs
                /\ cRet.result.TotalBillableSIs = rRuns[1].result.TotalBillableSIs
                /\ cRet.result.MonthlyMaxBillableAIs = rRuns[1].result.MonthlyMaxBillableAIs
                /\ cRet.result.YearlyMaxBillableAIs = rRuns[1].result.YearlyMaxBillableAIs

\* C23 witness: a second call has returned a result with two organizations,
\* billable instances and the maxima of the report, as the first call did
C23_Witness ==
    /\ cPc = "done" /\ Len(rRuns) = 1
    /\ ~cRet.err
    /\ Len(cRet.result.Organizations) = 2
    /\ cRet.result.TotalBillableSIs = 4
    /\ cRet.result.TotalAIs > 0
    /\ cRet.result.MonthlyMaxBillableAIs = 7
    /\ cRet = rRuns[1]

(***************************************************************************)
(* Properties of the startup (under MainSpec) and of the two loads (under  *)
(* CatalogSpec).                                                           *)
(***************************************************************************)
\* a collection run has started: in the server's loop, or the call of CLI mode
RunStarted == runsStarted > 0 \/ cPc # "off"

\* the table that holds exactly the entries of a list of resources
TableOf(resources) ==
    [g \in {resources[i].GUID : i \in 1..Len(resources)} |->
        resources[CHOOSE i \in 1..Len(resources) :
                     /\ resources[i].GUID = g
                     /\ \A j \in (i + 1)..Len(resources) : resources[j].GUID # g]]

\* both loads were called once, plans first, and both returned without error
LoadsCompleted ==
    /\ Len(lHist) = 2
    /\ lHist[1].what = "plans" /\ ~lHist[1].err
    /\ lHist[2].what = "offerings" /\ ~lHist[2].err

LoadFailed == lHist # << >> /\ lHist[Len(lHist)].err

C24_State ==
    /\ RunStarted => LoadsCompleted
    /\ (RunStarted \/ mPc \in {"server", "cli"}) =>
          /\ servicePlans = TableOf(lHist[1].answer.resources)
          /\ serviceOfferings = TableOf(lHist[2].answer.resources)
    /\ LoadFailed => (mPc = "fatal" /\ ~RunStarted /\ loopPc = "off")

C24_Step ==
    /\ (servicePlans' # servicePlans \/ serviceOfferings' # serviceOfferings) =>
          /\ Len(lHist') = Len(lHist) + 1
          /\ ~RunStarted /\ ~RunStarted'
    /\ Len(lHist') # Len(lHist) => (~RunStarted' /\ mPc \in {"load_plans", "load_offerings"})
    /\ RunStarted => UNCHANGED <<servicePlans, serviceOfferings>>
    /\ LoadFailed => UNCHANGED vars

\* C24: in both modes a collection run starts only after loadServicePlans
\* and then loadServiceOfferings were each called once and returned without
\* error, and the tables then hold what those two calls were answered; the
\* tables change only in the step of a load, before any run; once a run has
\* started (and whatever the server's loop and handlers do) they stay as
\* they are; after a failed load the process takes no further step and no
\* run ever starts.
C24_CatalogLoadedBeforeRuns == [](C24_State) /\ [][C24_Step]_vars

\* C24 witness: server mode, both loads done, two runs started of which one
\* stored a result, a metrics request answered 200, the tables as loaded
C24_Witness ==
    /\ mPc = "server" /\ LoadsCompleted
    /\ runsStarted = 2 /\ Len(stored) = 1
    /\ hStatus[1] = 200
    /\ servicePlans = CatalogPlans
    /\ serviceOfferings = CatalogOfferings

\* C25, as claimed: after a call of loadServicePlans or loadServiceOfferings
\* that returned without error, the table it fills holds exactly the
\* entries the platform returned in that call, whatever it held before.
C25_LoadReplaces ==
    (lHist # << >> /\ ~lHist[Len(lHist)].err) =>
        LET call == lHist[Len(lHist)]
        IN  (IF call.what = "plans" THEN servicePlans ELSE serviceOfferings)
                = TableOf(call.answer.resources)

(***************************************************************************)
(* Properties of isServiceInstanceBillable (under ClassifySpec).           *)
(***************************************************************************)
\* C7: the answer is billable exactly when the instance's plan is in the
\* plan table, the plan's offering is in the offering table and the
\* offering's name is, letter for letter, one of the nine names; a plan
\* miss answers (false, unknown-plan), an offering miss (false,
\* unknown-offering).
C7_BillableExactly ==
    kOut # None =>
        LET plan == kInstance.Plan
            planHit == plan \in DOMAIN servicePlans
            offHit == planHit /\ servicePlans[plan].Offering \in DOMAIN serviceOfferings
        IN  /\ kOut.billable <=>
                  /\ offHit
                  /\ \/ serviceOfferings[servicePlans[plan].Offering].Name = "p.mysql"
                     \/ serviceOfferings[servicePlans[plan].Offering].Name = "p-mysql"
                     \/ serviceOfferings[servicePlans[plan].Offering].Name = "p.rabbitmq"
                     \/ serviceOfferings[servicePlans[plan].Offering].Name = "p-rabbitmq"
                     \/ serviceOfferings[servicePlans[plan].Offering].Name = "p.redis"
                     \/ serviceOfferings[servicePlans[plan].Offering].Name = "p-redis"
                     \/ serviceOfferings[servicePlans[plan].Offering].Name = "postgres"
                     \/ serviceOfferings[servicePlans[plan].Offering].Name = "genai"
                     \/ serviceOfferings[servicePlans[plan].Offering].Name = "genai-service"
            /\ ~planHit => kOut = [billable |-> FALSE, name |-> "unknown-plan"]
            /\ (planHit /\ ~offHit) => kOut = [billable |-> FALSE, name |-> "unknown-offering"]

\* C7 witness: an instance whose offering is named P-MYSQL was classified,
\* after one on genai-service would be billable in the same tables
C7_Witness ==
    /\ kOut = [billable |-> FALSE, name |-> "P-MYSQL"]
    /\ \E p \in DOMAIN servicePlans :
          /\ servicePlans[p].Offering \in DOMAIN serviceOfferings
          /\ serviceOfferings[servicePlans[p].Offering].Name = "genai-service"

====
